---- MODULE Spec2Model ----
(***************************************************************************)
(* Micro-ESPectre: moving-variance segmentation, its filters, the remote   *)
(* configuration commands, configuration persistence and the calibration   *)
(* sequencing of the main loop.                                            *)
(*                                                                         *)
(* Numbers: Python floats are modelled as fixed-point integers counting    *)
(* 1/FxOne units (1.0 is FxOne); products and quotients round towards      *)
(* minus infinity.  Python lists are 1-based sequences here, the 0-based   *)
(* indices of the source (buffer_index, index) are kept 0-based and used   *)
(* as seq[i + 1].  Python's None for a subcarrier list is NoneBand.        *)
(***************************************************************************)
EXTENDS Integers, Sequences, FiniteSets, TLC

\* ------------------------------------------------------------------------
\* Bounds of the model (scaled-down sizes and input alphabets)
\* ------------------------------------------------------------------------
MaxPackets == 5
CfgPackets == 3
ResetPackets == 7
WinMin == 2
WinMax == 3
HampelWin == 3
\* add_turbulence calls in one behaviour of SpecCmd
CmdPackets == 2
\* add_turbulence calls in one behaviour of SpecChain
ChainPackets == 4
\* the node's packet budgets, scaled down: GAIN_LOCK_PACKETS (300),
\* config.NBVI_BUFFER_SIZE (700), max_timeout (15000) and publish_rate (100)
GAIN_LOCK_PACKETS == 2
NBVI_BUFFER_SIZE == 2
max_timeout == 2
publish_rate == 2
\* frames the main loop processes, and calibration runs, in one behaviour
NodePackets == 3
MaxRuns == 2

\* ------------------------------------------------------------------------
\* Numeric layer
\* ------------------------------------------------------------------------
FxOne == 100

FMul(a, b) == (a * b) \div FxOne

FDiv(a, b) == (a * FxOne) \div b

Abs(x) == IF x >= 0 THEN x ELSE -x

\* float('nan'), and the comparisons of floats: any comparison with nan is false
NaN == -1000000
FLt(a, b) == a # NaN /\ b # NaN /\ a < b
FGt(a, b) == a # NaN /\ b # NaN /\ a > b

Zeros(n) == [i \in 1..n |-> 0]

SeqSum(s) ==
  LET RECURSIVE Acc(_)
      Acc(i) == IF i = 0 THEN 0 ELSE Acc(i - 1) + s[i]
  IN Acc(Len(s))

\* ------------------------------------------------------------------------
\* Program constants
\* ------------------------------------------------------------------------
STATE_IDLE == 0
STATE_MOTION == 1

SEG_WINDOW_SIZE == WinMax
SEG_THRESHOLD == FxOne
SEG_WINDOW_SIZE_MIN == WinMin
SEG_WINDOW_SIZE_MAX == WinMax
SEG_THRESHOLD_MIN == 0
SEG_THRESHOLD_MAX == 10 * FxOne
SUBCARRIER_INDEX_MIN == 0
SUBCARRIER_INDEX_MAX == 63
TRAFFIC_GENERATOR_RATE == 100
TRAFFIC_RATE_MIN == 0
TRAFFIC_RATE_MAX == 1000
HAMPEL_THRESHOLD == 4 * FxOne
MadFactor == 148
MadEps == 0
LowpassB0 == 26
LowpassA1 == -47
ScaleMin == 10
ScaleMax == 10 * FxOne

NoneBand == << -1 >>
DEFAULT_SUBCARRIERS == <<11, 12, 13, 14, 15, 16, 17, 18, 19, 20, 21, 22>>

\* ------------------------------------------------------------------------
\* LowPassFilter
\* ------------------------------------------------------------------------
LowPassInit(enabled) ==
  [present |-> enabled, enabled |-> enabled, b0 |-> LowpassB0, a1 |-> LowpassA1,
   x_prev |-> 0, y_prev |-> 0, initialized |-> FALSE]

\* filter(value): the returned value and the filter afterwards
LowPassFilterStep(l, value) ==
  IF ~l.enabled THEN [out |-> value, f |-> l]
  ELSE IF ~l.initialized
    THEN [out |-> value,
          f |-> [l EXCEPT !.x_prev = value, !.y_prev = value, !.initialized = TRUE]]
    ELSE LET y == FMul(l.b0, value) + FMul(l.b0, l.x_prev) - FMul(l.a1, l.y_prev)
         IN [out |-> y, f |-> [l EXCEPT !.x_prev = value, !.y_prev = y]]

LowPassReset(l) ==
  [l EXCEPT !.x_prev = 0, !.y_prev = 0, !.initialized = FALSE]

\* variant: disabling keeps x_prev, y_prev and initialized
LowPassSetEnabledKeepsState(l, enabled) == [l EXCEPT !.enabled = enabled]

LowPassSetEnabled(l, enabled) ==
  IF ~enabled THEN LowPassReset([l EXCEPT !.enabled = FALSE])
  ELSE [l EXCEPT !.enabled = TRUE]

\* ------------------------------------------------------------------------
\* HampelFilter
\* ------------------------------------------------------------------------
HampelInit(present, window_size, threshold) ==
  [present |-> present, window_size |-> window_size,
   scaled_threshold |-> FMul(threshold, MadFactor),
   buffer |-> Zeros(window_size), sorted_buffer |-> Zeros(window_size),
   count |-> 0, index |-> 0]

\* _insertion_sort(arr, n): sorts the first n entries of arr in place
InsertionSort(arr, n) ==
  LET RECURSIVE Shift(_, _, _)
      \* the while loop: j is the 0-based position being compared
      Shift(a, j, key) ==
        IF j >= 0 /\ a[j + 1] > key
          THEN Shift([a EXCEPT ![j + 2] = a[j + 1]], j - 1, key)
          ELSE [a EXCEPT ![j + 2] = key]
      RECURSIVE Outer(_, _)
      Outer(a, i) ==
        IF i >= n THEN a ELSE Outer(Shift(a, i - 1, a[i + 1]), i + 1)
  IN Outer(arr, 1)

\* variant: the occupancy count survives the reset
HampelResetKeepsCount(h) == [h EXCEPT !.index = 0]

HampelReset(h) == [h EXCEPT !.count = 0, !.index = 0]

\* variant: median and MAD are taken over the whole buffer, filled or not
HampelFilterWholeBuffer(h, value) ==
  LET buf == [h.buffer EXCEPT ![h.index + 1] = value]
      idx == (h.index + 1) % h.window_size
      cnt == IF h.count < h.window_size THEN h.count + 1 ELSE h.count
      h1 == [h EXCEPT !.buffer = buf, !.index = idx, !.count = cnt]
  IN IF cnt < 3 THEN [out |-> value, f |-> h1]
     ELSE
       LET n == h.window_size
           mid == n \div 2
           sorted1 == InsertionSort(buf, n)
           median == sorted1[mid + 1]
           devs == [i \in 1..h.window_size |-> Abs(buf[i] - median)]
           sorted2 == InsertionSort(devs, n)
           mad == sorted2[mid + 1]
           h2 == [h1 EXCEPT !.sorted_buffer = sorted2]
       IN IF mad > MadEps /\ FDiv(Abs(value - median), mad) > h.scaled_threshold
            THEN [out |-> median, f |-> h2]
            ELSE [out |-> value, f |-> h2]

\* filter(value): the returned value and the filter afterwards
HampelFilterStep(h, value) ==
  LET buf == [h.buffer EXCEPT ![h.index + 1] = value]
      idx == (h.index + 1) % h.window_size
      cnt == IF h.count < h.window_size THEN h.count + 1 ELSE h.count
      h1 == [h EXCEPT !.buffer = buf, !.index = idx, !.count = cnt]
  IN IF cnt < 3 THEN [out |-> value, f |-> h1]
     ELSE
       LET n == cnt
           mid == n \div 2
           copied == [i \in 1..h.window_size |->
                        IF i <= n THEN buf[i] ELSE h.sorted_buffer[i]]
           sorted1 == InsertionSort(copied, n)
           median == sorted1[mid + 1]
           devs == [i \in 1..h.window_size |->
                      IF i <= n THEN Abs(buf[i] - median) ELSE sorted1[i]]
           sorted2 == InsertionSort(devs, n)
           mad == sorted2[mid + 1]
           h2 == [h1 EXCEPT !.sorted_buffer = sorted2]
       IN IF mad > MadEps /\ FDiv(Abs(value - median), mad) > h.scaled_threshold
            THEN [out |-> median, f |-> h2]
            ELSE [out |-> value, f |-> h2]

\* ------------------------------------------------------------------------
\* SegmentationContext
\* ------------------------------------------------------------------------
NoAmplitudes == [is_none |-> TRUE, n |-> 0]

\* __init__
SegInit(window_size, threshold, enable_lowpass, enable_hampel, hampel_window, scale) ==
  [window_size |-> window_size, threshold |-> threshold,
   normalization_scale |-> scale,
   turbulence_buffer |-> Zeros(window_size), buffer_index |-> 0, buffer_count |-> 0,
   state |-> STATE_IDLE, packet_index |-> 0,
   current_moving_variance |-> 0, last_turbulence |-> 0,
   last_amplitudes |-> NoAmplitudes,
   lowpass_filter |-> LowPassInit(enable_lowpass),
   hampel_filter |-> HampelInit(enable_hampel, hampel_window, HAMPEL_THRESHOLD)]

\* compute_variance_two_pass(values)
compute_variance_two_pass(values) ==
  LET n == Len(values)
  IN IF n = 0 THEN 0
     ELSE LET mean == SeqSum(values) \div n
              sq == [i \in 1..n |-> FMul(values[i] - mean, values[i] - mean)]
          IN SeqSum(sq) \div n

\* variant: no cold-start guard
calculate_variance_no_guard(s) ==
  compute_variance_two_pass(SubSeq(s.turbulence_buffer, 1, s.buffer_count))

\* _calculate_variance_two_pass()
calculate_variance_two_pass(s) ==
  IF s.buffer_count < s.window_size THEN 0
  ELSE compute_variance_two_pass(SubSeq(s.turbulence_buffer, 1, s.buffer_count))

\* set_normalization_scale(scale)
set_normalization_scale(s, scale) ==
  LET lo == IF scale > ScaleMax THEN ScaleMax ELSE scale
      cl == IF lo < ScaleMin THEN ScaleMin ELSE lo
  IN [s EXCEPT !.normalization_scale = cl]

\* variant: the variance is recomputed on every packet
add_turbulence_eager(s, turbulence) ==
  LET filtered == FMul(turbulence, s.normalization_scale)
      buf == [s.turbulence_buffer EXCEPT ![s.buffer_index + 1] = filtered]
      cnt == IF s.buffer_count < s.window_size
               THEN s.buffer_count + 1 ELSE s.buffer_count
  IN [s EXCEPT !.last_turbulence = filtered,
               !.turbulence_buffer = buf,
               !.buffer_index = (s.buffer_index + 1) % s.window_size,
               !.buffer_count = cnt,
               !.packet_index = s.packet_index + 1,
               !.current_moving_variance =
                  IF cnt < s.window_size THEN 0
                  ELSE compute_variance_two_pass(SubSeq(buf, 1, cnt))]

\* variant: once the buffer is full the write index stops advancing
add_turbulence_no_wrap(s, turbulence) ==
  LET filtered == FMul(turbulence, s.normalization_scale)
  IN [s EXCEPT !.last_turbulence = filtered,
               !.turbulence_buffer = [@ EXCEPT ![s.buffer_index + 1] = filtered],
               !.buffer_index = IF s.buffer_count < s.window_size
                                  THEN (s.buffer_index + 1) % s.window_size
                                  ELSE s.buffer_index,
               !.buffer_count = IF s.buffer_count < s.window_size
                                  THEN s.buffer_count + 1 ELSE s.buffer_count,
               !.packet_index = s.packet_index + 1]

\* add_turbulence(turbulence)
add_turbulence(s, turbulence) ==
  LET normalized == FMul(turbulence, s.normalization_scale)
      hs == IF s.hampel_filter.present
              THEN HampelFilterStep(s.hampel_filter, normalized)
              ELSE [out |-> normalized, f |-> s.hampel_filter]
      ls == IF s.lowpass_filter.present
              THEN LowPassFilterStep(s.lowpass_filter, hs.out)
              ELSE [out |-> hs.out, f |-> s.lowpass_filter]
      filtered == ls.out
  IN [s EXCEPT !.hampel_filter = hs.f,
               !.lowpass_filter = ls.f,
               !.last_turbulence = filtered,
               !.turbulence_buffer = [@ EXCEPT ![s.buffer_index + 1] = filtered],
               !.buffer_index = (s.buffer_index + 1) % s.window_size,
               !.buffer_count = IF s.buffer_count < s.window_size
                                  THEN s.buffer_count + 1 ELSE s.buffer_count,
               !.packet_index = s.packet_index + 1]

\* variant of add_turbulence_faults: the low-pass filter runs before the
\* Hampel filter
add_turbulence_lowpass_first(s, turbulence, hampel_raises, lowpass_raises) ==
  LET normalized == FMul(turbulence, s.normalization_scale)
      ls == IF s.lowpass_filter.present /\ ~lowpass_raises
              THEN LowPassFilterStep(s.lowpass_filter, normalized)
              ELSE [out |-> normalized, f |-> s.lowpass_filter]
      hs == IF s.hampel_filter.present /\ ~hampel_raises
              THEN HampelFilterStep(s.hampel_filter, ls.out)
              ELSE [out |-> ls.out, f |-> s.hampel_filter]
      filtered == hs.out
  IN [s EXCEPT !.hampel_filter = hs.f,
               !.lowpass_filter = ls.f,
               !.last_turbulence = filtered,
               !.turbulence_buffer = [@ EXCEPT ![s.buffer_index + 1] = filtered],
               !.buffer_index = (s.buffer_index + 1) % s.window_size,
               !.buffer_count = IF s.buffer_count < s.window_size
                                  THEN s.buffer_count + 1 ELSE s.buffer_count,
               !.packet_index = s.packet_index + 1]

\* variant of add_turbulence_faults: a Hampel failure also skips the low-pass
\* filter
add_turbulence_fault_skips_rest(s, turbulence, hampel_raises, lowpass_raises) ==
  LET normalized == FMul(turbulence, s.normalization_scale)
      hs == IF s.hampel_filter.present /\ ~hampel_raises
              THEN HampelFilterStep(s.hampel_filter, normalized)
              ELSE [out |-> normalized, f |-> s.hampel_filter]
      skip == s.hampel_filter.present /\ hampel_raises
      ls == IF s.lowpass_filter.present /\ ~lowpass_raises /\ ~skip
              THEN LowPassFilterStep(s.lowpass_filter, hs.out)
              ELSE [out |-> hs.out, f |-> s.lowpass_filter]
      filtered == ls.out
  IN [s EXCEPT !.hampel_filter = hs.f,
               !.lowpass_filter = ls.f,
               !.last_turbulence = filtered,
               !.turbulence_buffer = [@ EXCEPT ![s.buffer_index + 1] = filtered],
               !.buffer_index = (s.buffer_index + 1) % s.window_size,
               !.buffer_count = IF s.buffer_count < s.window_size
                                  THEN s.buffer_count + 1 ELSE s.buffer_count,
               !.packet_index = s.packet_index + 1]

\* add_turbulence(turbulence) when a filter's filter() may raise: the
\* except clause leaves filtered_turbulence as it was, the filter that raised
\* on entry keeps its state
add_turbulence_faults(s, turbulence, hampel_raises, lowpass_raises) ==
  LET normalized == FMul(turbulence, s.normalization_scale)
      hs == IF s.hampel_filter.present /\ ~hampel_raises
              THEN HampelFilterStep(s.hampel_filter, normalized)
              ELSE [out |-> normalized, f |-> s.hampel_filter]
      ls == IF s.lowpass_filter.present /\ ~lowpass_raises
              THEN LowPassFilterStep(s.lowpass_filter, hs.out)
              ELSE [out |-> hs.out, f |-> s.lowpass_filter]
      filtered == ls.out
  IN [s EXCEPT !.hampel_filter = hs.f,
               !.lowpass_filter = ls.f,
               !.last_turbulence = filtered,
               !.turbulence_buffer = [@ EXCEPT ![s.buffer_index + 1] = filtered],
               !.buffer_index = (s.buffer_index + 1) % s.window_size,
               !.buffer_count = IF s.buffer_count < s.window_size
                                  THEN s.buffer_count + 1 ELSE s.buffer_count,
               !.packet_index = s.packet_index + 1]

\* variant: the comparator includes the boundary
update_state_inclusive(s) ==
  LET v == calculate_variance_two_pass(s)
      st == IF s.state = STATE_IDLE
              THEN (IF v >= s.threshold THEN STATE_MOTION ELSE STATE_IDLE)
              ELSE (IF v <= s.threshold THEN STATE_IDLE ELSE STATE_MOTION)
  IN [s EXCEPT !.current_moving_variance = v, !.state = st]

\* update_state()
update_state(s) ==
  LET v == calculate_variance_two_pass(s)
      st == IF s.state = STATE_IDLE
              THEN (IF FGt(v, s.threshold) THEN STATE_MOTION ELSE STATE_IDLE)
              ELSE (IF FLt(v, s.threshold) THEN STATE_IDLE ELSE STATE_MOTION)
  IN [s EXCEPT !.current_moving_variance = v, !.state = st]

\* variant: every reset empties the buffer
reset_always_empties(s, full) ==
  [s EXCEPT !.state = STATE_IDLE, !.packet_index = 0,
            !.turbulence_buffer = Zeros(s.window_size),
            !.buffer_index = 0, !.buffer_count = 0]

\* reset(full)
reset(s, full) ==
  LET s1 == [s EXCEPT !.state = STATE_IDLE, !.packet_index = 0]
  IN IF ~full THEN s1
     ELSE [s1 EXCEPT !.turbulence_buffer = Zeros(s.window_size),
                     !.buffer_index = 0, !.buffer_count = 0,
                     !.current_moving_variance = 0, !.last_turbulence = 0,
                     !.last_amplitudes = NoAmplitudes,
                     !.lowpass_filter = IF s.lowpass_filter.present
                                          THEN LowPassReset(s.lowpass_filter)
                                          ELSE s.lowpass_filter,
                     !.hampel_filter = IF s.hampel_filter.present
                                         THEN HampelReset(s.hampel_filter)
                                         ELSE s.hampel_filter]

\* ------------------------------------------------------------------------
\* TrafficGenerator (running flag and rate only)
\* ------------------------------------------------------------------------
TgInit == [running |-> FALSE, rate_pps |-> 0]

\* variant: a failed thread creation leaves running set
TgStartLeavesRunning(t, rate_pps, gw_ok, thread_ok) ==
  IF t.running THEN [ok |-> FALSE, t |-> t]
  ELSE IF rate_pps < TRAFFIC_RATE_MIN \/ rate_pps > TRAFFIC_RATE_MAX
    THEN [ok |-> FALSE, t |-> t]
  ELSE IF ~gw_ok THEN [ok |-> FALSE, t |-> t]
  ELSE [ok |-> thread_ok, t |-> [running |-> TRUE, rate_pps |-> rate_pps]]

\* start(rate_pps): gw_ok = a gateway address was obtained,
\* thread_ok = _thread.start_new_thread did not raise
TgStart(t, rate_pps, gw_ok, thread_ok) ==
  IF t.running THEN [ok |-> FALSE, t |-> t]
  ELSE IF rate_pps < TRAFFIC_RATE_MIN \/ rate_pps > TRAFFIC_RATE_MAX
    THEN [ok |-> FALSE, t |-> t]
  ELSE IF ~gw_ok THEN [ok |-> FALSE, t |-> t]
  ELSE IF thread_ok
    THEN [ok |-> TRUE, t |-> [running |-> TRUE, rate_pps |-> rate_pps]]
    ELSE [ok |-> FALSE, t |-> [running |-> FALSE, rate_pps |-> rate_pps]]

\* start(rate_pps): _thread.start_new_thread was called and returned, so that
\* a new _dns_task runs
TgSpawns(t, rate_pps, gw_ok, thread_ok) ==
  /\ ~t.running
  /\ rate_pps >= TRAFFIC_RATE_MIN
  /\ rate_pps <= TRAFFIC_RATE_MAX
  /\ gw_ok
  /\ thread_ok

\* stop()
TgStop(t) == IF ~t.running THEN t ELSE [running |-> FALSE, rate_pps |-> 0]

\* ------------------------------------------------------------------------
\* NVSStorage: the configuration file
\* ------------------------------------------------------------------------
NoFile ==
  [exists |-> FALSE, unreadable |-> FALSE, has_seg |-> FALSE,
   has_threshold |-> FALSE, threshold |-> 0,
   has_window |-> FALSE, window_size |-> 0,
   has_sub |-> FALSE, has_indices |-> FALSE, indices |-> NoneBand,
   has_tg |-> FALSE, rate |-> 0]

\* save_full_config(seg, config_module, traffic_gen): the file it writes
save_full_config(s, sel, t) ==
  [exists |-> TRUE, unreadable |-> FALSE, has_seg |-> TRUE,
   has_threshold |-> TRUE, threshold |-> s.threshold,
   has_window |-> TRUE, window_size |-> s.window_size,
   has_sub |-> TRUE, has_indices |-> TRUE, indices |-> sel,
   has_tg |-> TRUE, rate |-> t.rate_pps]

\* load(): None for a missing file or one that is no JSON; load_and_apply
\* also returns early on {}
FileIsEmpty(f) ==
  ~f.exists \/ f.unreadable \/ (~f.has_seg /\ ~f.has_sub /\ ~f.has_tg)

\* variant: a key absent from the segmentation object is set to its default
load_and_apply_absent_to_default(s, f) ==
  IF FileIsEmpty(f) \/ ~f.has_seg THEN s
  ELSE LET w == IF f.has_window THEN f.window_size ELSE SEG_WINDOW_SIZE
       IN [s EXCEPT !.threshold = IF f.has_threshold THEN f.threshold ELSE SEG_THRESHOLD,
                    !.window_size = w,
                    !.turbulence_buffer = Zeros(w),
                    !.buffer_index = 0,
                    !.buffer_count = 0]

\* load_and_apply(seg, config_module): the context afterwards
load_and_apply_seg(s, f) ==
  IF FileIsEmpty(f) \/ ~f.has_seg THEN s
  ELSE LET w == IF f.has_window THEN f.window_size ELSE s.window_size
       IN [s EXCEPT !.threshold = IF f.has_threshold THEN f.threshold ELSE s.threshold,
                    !.window_size = w,
                    !.turbulence_buffer = Zeros(w),
                    !.buffer_index = 0,
                    !.buffer_count = 0]

\* load_and_apply(seg, config_module): config.SELECTED_SUBCARRIERS afterwards
load_and_apply_sel(sel, f) ==
  IF FileIsEmpty(f) \/ ~f.has_sub \/ ~f.has_indices THEN sel ELSE f.indices

\* load_and_apply(seg, config_module): the exception that leaves it
\* (config_data["subcarriers"]["indices"] on an object without indices)
load_and_apply_raises(f) ==
  IF ~FileIsEmpty(f) /\ f.has_sub /\ ~f.has_indices THEN "KeyError" ELSE "none"

\* ------------------------------------------------------------------------
\* State
\* ------------------------------------------------------------------------
VARIABLES
  seg,              \* the SegmentationContext
  config_sel,       \* config.SELECTED_SUBCARRIERS
  config_norm,      \* config.NORMALIZATION_SCALE
  static_sel,       \* SELECTED_SUBCARRIERS as imported by commands.py
  nvs_file,         \* espectre_config.json
  tg,               \* the TrafficGenerator
  g_state,          \* GlobalState: calibration_mode, current_channel
  cal,              \* the running calibration: calibrator buffer file, counters
  pc,               \* position of the main thread
  publish_counter,  \* main(): packets since the last publication
  responses,        \* messages published on the response topic by the last command
  last_op,          \* history: name of the last operation
  last_ok,          \* history: the last operation took its success path
  evals,            \* history: the last two (variance, state) results of update_state
  fed,              \* history: add_turbulence calls so far
  pristine,         \* history: only add_turbulence/update_state since construction
  fresh,            \* history: a context constructed at the last full reset
  fresh_valid,      \* history: fresh has received the same calls as seg since then
  reply,            \* history: the last message process_command published
  nbvi,             \* an NBVICalibrator used on its own
  flt,              \* a HampelFilter or LowPassFilter used on its own; in SpecTask
                    \* the _dns_task threads and self.sock of the generator
  escaped,          \* history: the exception that left the operation just made
  last_payload,     \* history: the cmd_obj of the command just processed
  last_call,        \* history: the argument of the add_turbulence call just made,
                    \* and which filter raised in it
  recent            \* history: the filtered values add_turbulence stored since the
                    \* buffer was last emptied, the newest window_size of them

vars == <<seg, config_sel, config_norm, static_sel, nvs_file, tg, g_state, cal, pc,
          publish_counter, responses, last_op, last_ok, evals, fed, pristine, fresh,
          fresh_valid, recent, last_call, last_payload,
          escaped, reply, nbvi, flt>>

nodeVars == <<g_state, cal, pc, publish_counter, config_norm, static_sel>>

\* ------------------------------------------------------------------------
\* Input alphabets
\* ------------------------------------------------------------------------
TurbValues == {0, 1, 314}
CfgTurbValues == {0, 314}
ThresholdValues == {-1, 218, 1001}
WindowValues == (WinMin - 1)..(WinMax + 1)
AltBand == <<12, 14, 16, 18, 20, 24, 28, 36, 40, 44, 48, 52>>

\* cmd_obj of a command with a 'value' field: the field is missing, is text
\* that is no number, is the text "nan", or is a number; of
\* subcarrier_selection: 'indices' is missing, is no list, or is a list
NoPayload == [kind |-> "none", v |-> 0, indices |-> <<>>]

\* history: nothing was published; otherwise kind is "ok", "error",
\* "missing_cmd", "unknown" (with the command named) or "failed"
NoReply == [kind |-> "none", name |-> ""]

Payloads(values) ==
  {[NoPayload EXCEPT !.kind = k] : k \in {"missing", "text", "nan"}}
    \cup {[NoPayload EXCEPT !.kind = "num", !.v = x] : x \in values}

IndexLists == {AltBand, <<5>>, <<7, 7>>, <<3, 64>>, <<>>}

IndexPayloads ==
  {[NoPayload EXCEPT !.kind = k] : k \in {"missing", "text"}}
    \cup {[NoPayload EXCEPT !.kind = "list", !.indices = l] : l \in IndexLists}

InitFiles ==
  {NoFile,
   [NoFile EXCEPT !.exists = TRUE, !.has_seg = TRUE,
                  !.has_threshold = TRUE, !.threshold = 218],
   [NoFile EXCEPT !.exists = TRUE, !.has_seg = TRUE,
                  !.has_window = TRUE, !.window_size = WinMin],
   [NoFile EXCEPT !.exists = TRUE, !.has_sub = TRUE, !.has_indices = TRUE,
                  !.indices = AltBand]}

DummySeg == SegInit(WinMin, 0, FALSE, FALSE, HampelWin, 0)

\* a context constructed with the configuration s has now
FreshLike(s) ==
  SegInit(s.window_size, s.threshold, s.lowpass_filter.present,
          s.hampel_filter.present, s.hampel_filter.window_size, s.normalization_scale)

\* ------------------------------------------------------------------------
\* MQTTCommands
\* ------------------------------------------------------------------------
\* variant: a valid threshold is acknowledged but not applied by the handler
cmd_segmentation_threshold_deferred(p) ==
  /\ responses' = 1
  /\ UNCHANGED <<config_sel, tg, seg, nvs_file>>
  /\ last_ok' = (p.kind = "num" /\ p.v >= SEG_THRESHOLD_MIN /\ p.v <= SEG_THRESHOLD_MAX)

\* cmd_segmentation_threshold(cmd_obj)
cmd_segmentation_threshold(p) ==
  /\ responses' = 1
  /\ UNCHANGED <<config_sel, tg>>
  /\ IF /\ p.kind \in {"num", "nan"}
        /\ LET threshold == IF p.kind = "nan" THEN NaN ELSE p.v
           IN ~(FLt(threshold, SEG_THRESHOLD_MIN) \/ FGt(threshold, SEG_THRESHOLD_MAX))
       THEN /\ seg' = [seg EXCEPT !.threshold = IF p.kind = "nan" THEN NaN ELSE p.v]
            /\ nvs_file' = save_full_config(seg', config_sel, tg)
            /\ last_ok' = TRUE
       ELSE /\ UNCHANGED <<seg, nvs_file>>
            /\ last_ok' = FALSE

\* variant: the window size is stored without reallocating the buffer
cmd_window_size_keeps_buffer(p) ==
  /\ responses' = 1
  /\ UNCHANGED <<config_sel, tg>>
  /\ IF p.kind = "num" /\ p.v >= SEG_WINDOW_SIZE_MIN /\ p.v <= SEG_WINDOW_SIZE_MAX
       THEN /\ seg' = [seg EXCEPT !.window_size = p.v]
            /\ nvs_file' = save_full_config(seg', config_sel, tg)
            /\ last_ok' = TRUE
       ELSE /\ UNCHANGED <<seg, nvs_file>>
            /\ last_ok' = FALSE

\* cmd_segmentation_window_size(cmd_obj)
cmd_segmentation_window_size(p) ==
  /\ responses' = 1
  /\ UNCHANGED <<config_sel, tg>>
  /\ IF p.kind = "num" /\ p.v >= SEG_WINDOW_SIZE_MIN /\ p.v <= SEG_WINDOW_SIZE_MAX
       THEN /\ seg' = [seg EXCEPT !.window_size = p.v,
                                  !.turbulence_buffer = Zeros(p.v),
                                  !.buffer_index = 0,
                                  !.buffer_count = 0,
                                  !.current_moving_variance = 0]
            /\ nvs_file' = save_full_config(seg', config_sel, tg)
            /\ last_ok' = TRUE
       ELSE /\ UNCHANGED <<seg, nvs_file>>
            /\ last_ok' = FALSE

\* cmd_subcarrier_selection(cmd_obj)
cmd_subcarrier_selection(p) ==
  /\ responses' = 1
  /\ UNCHANGED <<seg, tg>>
  /\ IF /\ p.kind = "list"
        /\ Len(p.indices) >= 1 /\ Len(p.indices) <= SUBCARRIER_INDEX_MAX + 1
        /\ \A i \in 1..Len(p.indices) :
              p.indices[i] >= SUBCARRIER_INDEX_MIN /\ p.indices[i] <= SUBCARRIER_INDEX_MAX
       THEN /\ config_sel' = p.indices
            /\ nvs_file' = save_full_config(seg, config_sel', tg)
            /\ last_ok' = TRUE
       ELSE /\ UNCHANGED <<config_sel, nvs_file>>
            /\ last_ok' = FALSE

\* cmd_factory_reset(cmd_obj) up to the point where it would start the
\* re-calibration: raised = an exception left the handler before nvs.erase()
\* (SELECTED_SUBCARRIERS.copy() on None, or traffic_gen.set_rate, which
\* TrafficGenerator does not define)
factory_reset_core(s, sel, t, f, gw_ok, thread_ok) ==
  LET s1 == [s EXCEPT !.threshold = SEG_THRESHOLD,
                      !.window_size = SEG_WINDOW_SIZE,
                      !.turbulence_buffer = Zeros(SEG_WINDOW_SIZE),
                      !.buffer_index = 0, !.buffer_count = 0,
                      !.current_moving_variance = 0,
                      !.state = STATE_IDLE, !.packet_index = 0]
  IN IF static_sel = NoneBand
       THEN [seg |-> s1, sel |-> sel, tg |-> t, file |-> f, raised |-> TRUE]
     ELSE IF TRAFFIC_GENERATOR_RATE > 0
       THEN IF t.running
              THEN [seg |-> s1, sel |-> static_sel, tg |-> t, file |-> f, raised |-> TRUE]
              ELSE [seg |-> s1, sel |-> static_sel,
                    tg |-> TgStart(t, TRAFFIC_GENERATOR_RATE, gw_ok, thread_ok).t,
                    file |-> NoFile, raised |-> FALSE]
       ELSE [seg |-> s1, sel |-> static_sel, tg |-> TgStop(t),
             file |-> NoFile, raised |-> FALSE]

\* cmd_factory_reset(cmd_obj) when no calibration function was provided
cmd_factory_reset_plain(gw_ok, thread_ok) ==
  LET r == factory_reset_core(seg, config_sel, tg, nvs_file, gw_ok, thread_ok)
  IN /\ seg' = r.seg
     /\ config_sel' = r.sel
     /\ tg' = r.tg
     /\ nvs_file' = r.file
     /\ responses' = 1
     /\ last_ok' = ~r.raised

\* cmd_traffic_generator_rate(cmd_obj); traffic_gen.set_rate is not defined,
\* so changing the rate of a running generator raises inside process_command
cmd_traffic_generator_rate(p, gw_ok, thread_ok) ==
  /\ responses' = 1
  /\ UNCHANGED <<seg, config_sel>>
  /\ IF p.kind # "num" \/ p.v < TRAFFIC_RATE_MIN \/ p.v > TRAFFIC_RATE_MAX
       THEN /\ UNCHANGED <<tg, nvs_file>>
            /\ last_ok' = FALSE
     ELSE IF p.v = 0
       THEN /\ tg' = TgStop(tg)
            /\ UNCHANGED nvs_file
            /\ last_ok' = TRUE
     ELSE IF tg.running
       THEN /\ UNCHANGED <<tg, nvs_file>>
            /\ last_ok' = FALSE
     ELSE LET r == TgStart(tg, p.v, gw_ok, thread_ok)
          IN /\ tg' = r.t
             /\ nvs_file' = IF r.ok THEN save_full_config(seg, config_sel, tg')
                                    ELSE nvs_file
             /\ last_ok' = r.ok

\* ------------------------------------------------------------------------
\* Calibration run and GlobalState: initial values
\* ------------------------------------------------------------------------
GStateInit == [calibration_mode |-> FALSE, current_channel |-> 0]

CalIdle ==
  [file_open |-> FALSE, file_exists |-> FALSE, packet_count |-> 0,
   timeout_counter |-> 0, gain_count |-> 0, runs |-> 0, caller |-> "none",
   outcome |-> "none"]

\* ------------------------------------------------------------------------
\* Operations of the context, shared by the specifications
\* ------------------------------------------------------------------------
\* the metrics update_state returned, appended to the last result kept
Record(h, s) ==
  LET e == [v |-> s.current_moving_variance, state |-> s.state]
  IN IF Len(h) = 0 THEN <<e>> ELSE <<h[Len(h)], e>>

\* history: the last operation was not add_turbulence
NoCall == [raw |-> 0, hampel_raises |-> FALSE, lowpass_raises |-> FALSE]

\* history: h with x appended, cut to its newest w entries
Push(h, x, w) ==
  LET a == Append(h, x)
  IN IF Len(a) > w THEN SubSeq(a, Len(a) - w + 1, Len(a)) ELSE a

\* history: an operation other than add_turbulence keeps recent unless it
\* empties the buffer
KeepRecent == IF seg'.buffer_count = 0 THEN <<>> ELSE recent

\* history bookkeeping of an operation that is neither add/update nor a reset
OtherWith(op, p) ==
  /\ UNCHANGED <<nbvi, flt>>
  /\ last_op' = op
  /\ pristine' = FALSE
  /\ fresh' = DummySeg
  /\ fresh_valid' = FALSE
  /\ recent' = KeepRecent
  /\ last_call' = NoCall
  /\ last_payload' = p
  /\ escaped' = "none"
  /\ reply' = NoReply
  /\ UNCHANGED <<fed, evals>>

Other(op) == OtherWith(op, NoPayload)

AddTurbulenceOp(values, cap) ==
  \E v \in values :
    /\ fed < cap
    /\ seg' = add_turbulence(seg, v)
    /\ fresh' = IF fresh_valid THEN add_turbulence(fresh, v) ELSE fresh
    /\ fed' = fed + 1
    /\ recent' = Push(recent, seg'.last_turbulence, seg.window_size)
    /\ last_call' = [NoCall EXCEPT !.raw = v]
    /\ last_payload' = NoPayload
    /\ escaped' = "none"
    /\ reply' = NoReply
    /\ UNCHANGED <<nbvi, flt>>
    /\ last_op' = "add_turbulence"
    /\ last_ok' = TRUE
    /\ UNCHANGED <<config_sel, nvs_file, tg, responses, pristine, fresh_valid, evals>>
    /\ UNCHANGED nodeVars

UpdateState ==
  /\ seg' = update_state(seg)
  /\ fresh' = IF fresh_valid THEN update_state(fresh) ELSE fresh
  /\ UNCHANGED <<nbvi, flt>>
  /\ last_op' = "update_state"
  /\ last_call' = NoCall
  /\ last_payload' = NoPayload
  /\ escaped' = "none"
  /\ reply' = NoReply
  /\ last_ok' = TRUE
  /\ evals' = Record(evals, seg')
  /\ UNCHANGED <<config_sel, nvs_file, tg, responses, pristine, fresh_valid, fed,
                 recent>>
  /\ UNCHANGED nodeVars

ResetSoft ==
  /\ seg' = reset(seg, FALSE)
  /\ fresh' = IF fresh_valid THEN reset(fresh, FALSE) ELSE fresh
  /\ UNCHANGED <<nbvi, flt>>
  /\ last_op' = "reset_soft"
  /\ last_call' = NoCall
  /\ last_payload' = NoPayload
  /\ escaped' = "none"
  /\ reply' = NoReply
  /\ last_ok' = TRUE
  /\ pristine' = FALSE
  /\ UNCHANGED <<config_sel, nvs_file, tg, responses, fresh_valid, fed, evals,
                 recent>>
  /\ UNCHANGED nodeVars

ResetFull ==
  /\ seg' = reset(seg, TRUE)
  /\ fresh' = FreshLike(seg)
  /\ fresh_valid' = TRUE
  /\ UNCHANGED <<nbvi, flt>>
  /\ last_op' = "reset_full"
  /\ last_call' = NoCall
  /\ last_payload' = NoPayload
  /\ escaped' = "none"
  /\ reply' = NoReply
  /\ last_ok' = TRUE
  /\ pristine' = FALSE
  /\ recent' = <<>>
  /\ UNCHANGED <<config_sel, nvs_file, tg, responses, fed, evals>>
  /\ UNCHANGED nodeVars

HistoryInit ==
  /\ responses = 0
  /\ last_op = "init"
  /\ last_ok = TRUE
  /\ evals = <<>>
  /\ fed = 0
  /\ recent = <<>>
  /\ last_call = NoCall
  /\ last_payload = NoPayload
  /\ escaped = "none"
  /\ reply = NoReply
  /\ pristine = TRUE
  /\ fresh = DummySeg
  /\ fresh_valid = FALSE

\* no calibrator and no filter is used on its own
NoUnit == [kind |-> "none"]

UnitsIdle ==
  /\ nbvi = NoUnit
  /\ flt = NoUnit

NodeIdle ==
  /\ g_state = GStateInit
  /\ cal = CalIdle
  /\ pc = "api"
  /\ publish_counter = 0
  /\ config_norm = FxOne

\* ------------------------------------------------------------------------
\* Specification Spec: one SegmentationContext, constructed with any of the
\* configurations, its operations called in any order
\* ------------------------------------------------------------------------
Init ==
  /\ seg \in {SegInit(w, th, lp, hp, HampelWin, FxOne) :
                 w \in WinMin..WinMax, th \in {0, 218},
                 lp \in BOOLEAN, hp \in BOOLEAN}
  /\ static_sel = DEFAULT_SUBCARRIERS
  /\ config_sel = static_sel
  /\ nvs_file = NoFile
  /\ tg = TgInit
  /\ NodeIdle
  /\ HistoryInit
  /\ UnitsIdle

AddTurbulence == AddTurbulenceOp(TurbValues, MaxPackets)

Next ==
  \/ AddTurbulence
  \/ UpdateState
  \/ ResetSoft
  \/ ResetFull

Spec == Init /\ [][Next]_vars

\* ------------------------------------------------------------------------
\* Properties of Spec
\* ------------------------------------------------------------------------
\* C1: an update_state call on a full buffer stores the two-pass variance v of
\* the buffer and moves IDLE to MOTION exactly when v > threshold, MOTION to
\* IDLE exactly when v < threshold, and keeps the state when v = threshold;
\* with threshold 2.18, v = 2.17 gives IDLE and v = 2.19 gives MOTION.
C1_ComparatorExact ==
  [][(last_op' = "update_state" /\ seg.buffer_count = seg.window_size) =>
       LET v == compute_variance_two_pass(seg.turbulence_buffer)
           th == seg.threshold
       IN /\ seg'.current_moving_variance = v
          /\ (seg.state = STATE_IDLE =>
                (seg'.state = STATE_MOTION <=> v > th))
          /\ (seg.state = STATE_MOTION =>
                (seg'.state = STATE_IDLE <=> v < th))
          /\ (v = th => seg'.state = seg.state)
          /\ (th = 218 /\ v = 217 => seg'.state = STATE_IDLE)
          /\ (th = 218 /\ v = 219 => seg'.state = STATE_MOTION)]_vars

\* two consecutive evaluations under threshold 2.18: 2.17 IDLE, then 2.19 MOTION
C1_Witness ==
  /\ last_op = "update_state"
  /\ seg.threshold = 218
  /\ evals = <<[v |-> 217, state |-> STATE_IDLE], [v |-> 219, state |-> STATE_MOTION]>>

\* C2: on a newly constructed context that has received fewer than
\* window_size values, every update_state call reports variance 0 and IDLE.
C2_ColdStart ==
  [][(last_op' = "update_state" /\ pristine /\ fed < seg.window_size) =>
       /\ seg'.current_moving_variance = 0
       /\ seg'.state = STATE_IDLE
       /\ evals'[Len(evals')] = [v |-> 0, state |-> STATE_IDLE]]_vars

\* an evaluation one value short of a full window, after non-zero input
C2_Witness ==
  /\ last_op = "update_state"
  /\ pristine
  /\ fed = seg.window_size - 1
  /\ seg.last_turbulence > 0
  /\ \E i \in 1..seg.buffer_count : seg.turbulence_buffer[i] # seg.last_turbulence

\* ------------------------------------------------------------------------
\* Specification SpecReset: a context whose Hampel window is longer than the
\* three values the filter needs, fed, evaluated and reset in any order
\* ------------------------------------------------------------------------
InitReset ==
  /\ seg \in {SegInit(WinMin, 0, lp, TRUE, HampelWin + 1, FxOne) : lp \in BOOLEAN}
  /\ static_sel = DEFAULT_SUBCARRIERS
  /\ config_sel = static_sel
  /\ nvs_file = NoFile
  /\ tg = TgInit
  /\ NodeIdle
  /\ HistoryInit
  /\ UnitsIdle

ResetAddTurbulence == AddTurbulenceOp(TurbValues, ResetPackets)

NextReset ==
  \/ ResetAddTurbulence
  \/ UpdateState
  \/ ResetFull

SpecReset == InitReset /\ [][NextReset]_vars

\* the fields of a context other than the raw storage of the Hampel filter
Observable(s) ==
  [s EXCEPT !.hampel_filter.buffer = Zeros(Len(@)),
            !.hampel_filter.sorted_buffer = Zeros(Len(@))]

\* C8: after reset(full=True) and any further add_turbulence, update_state
\* and soft reset calls, the context equals, in everything but the raw Hampel
\* storage, a context newly constructed with the same configuration that
\* received the same calls.
C8_FullResetIsFresh ==
  fresh_valid => Observable(seg) = Observable(fresh)

\* the Hampel filter is filtering again after the reset (it has just replaced
\* an outlier) while its storage still holds a value from before the reset
C8_Witness ==
  /\ fresh_valid
  /\ seg.hampel_filter.count >= 3
  /\ seg.hampel_filter.buffer # fresh.hampel_filter.buffer
  /\ ~seg.lowpass_filter.present
  /\ LET h == seg.hampel_filter
         last == IF h.index = 0 THEN h.window_size ELSE h.index
     IN seg.last_turbulence # FMul(h.buffer[last], seg.normalization_scale)
  /\ last_op = "update_state"

\* C9: reset(full=False) sets IDLE and packet counter 0 and leaves the ring
\* buffer, its index and count, and both filters as they were.
C9_SoftResetFrame ==
  [][last_op' = "reset_soft" =>
       /\ seg'.state = STATE_IDLE
       /\ seg'.packet_index = 0
       /\ seg'.turbulence_buffer = seg.turbulence_buffer
       /\ seg'.buffer_index = seg.buffer_index
       /\ seg'.buffer_count = seg.buffer_count
       /\ seg'.lowpass_filter = seg.lowpass_filter
       /\ seg'.hampel_filter = seg.hampel_filter]_vars

\* a soft reset out of MOTION with a full buffer and both filters warmed up
C9_Witness ==
  /\ last_op = "reset_soft"
  /\ seg.state = STATE_IDLE
  /\ seg.buffer_count = seg.window_size
  /\ seg.current_moving_variance > seg.threshold
  /\ seg.lowpass_filter.initialized
  /\ seg.hampel_filter.count > 0

\* C10: add_turbulence leaves state and current_moving_variance unchanged.
C10_AddIsLazy ==
  [][last_op' = "add_turbulence" =>
       /\ seg'.state = seg.state
       /\ seg'.current_moving_variance = seg.current_moving_variance]_vars

\* a packet added after an evaluation changed the variance of the buffer
\* while the stored variance and the state stayed
C10_Witness ==
  /\ last_op = "add_turbulence"
  /\ seg.state = STATE_MOTION
  /\ seg.buffer_count = seg.window_size
  /\ seg.current_moving_variance # calculate_variance_two_pass(seg)
  /\ calculate_variance_two_pass(seg) < seg.threshold

\* ------------------------------------------------------------------------
\* Specification SpecCfg: the context of a node together with the remote
\* configuration commands and the persisted configuration
\* ------------------------------------------------------------------------
InitCfg ==
  /\ seg = SegInit(SEG_WINDOW_SIZE, SEG_THRESHOLD, TRUE, TRUE, HampelWin, FxOne)
  /\ static_sel = DEFAULT_SUBCARRIERS
  /\ config_sel = static_sel
  /\ nvs_file \in InitFiles
  /\ tg \in {TgInit, [running |-> TRUE, rate_pps |-> TRAFFIC_GENERATOR_RATE]}
  /\ NodeIdle
  /\ HistoryInit
  /\ UnitsIdle

CfgAddTurbulence == AddTurbulenceOp(CfgTurbValues, CfgPackets)

CmdThreshold ==
  \E p \in Payloads(ThresholdValues) :
    /\ cmd_segmentation_threshold(p)
    /\ Other("segmentation_threshold")
    /\ UNCHANGED nodeVars

CmdWindowSize ==
  \E p \in Payloads(WindowValues) :
    /\ cmd_segmentation_window_size(p)
    /\ Other("segmentation_window_size")
    /\ UNCHANGED nodeVars

CmdFactoryReset ==
  \E gw_ok \in BOOLEAN, thread_ok \in BOOLEAN :
    /\ cmd_factory_reset_plain(gw_ok, thread_ok)
    /\ Other("factory_reset")
    /\ UNCHANGED nodeVars

LoadAndApply ==
  /\ seg' = load_and_apply_seg(seg, nvs_file)
  /\ config_sel' = load_and_apply_sel(config_sel, nvs_file)
  /\ last_ok' = ~FileIsEmpty(nvs_file)
  /\ Other("load_and_apply")
  /\ UNCHANGED <<nvs_file, tg, responses>>
  /\ UNCHANGED nodeVars

NextCfg ==
  \/ CfgAddTurbulence
  \/ UpdateState
  \/ ResetSoft
  \/ ResetFull
  \/ CmdThreshold
  \/ CmdWindowSize
  \/ CmdFactoryReset
  \/ LoadAndApply

SpecCfg == InitCfg /\ [][NextCfg]_vars

\* ------------------------------------------------------------------------
\* Properties of SpecCfg
\* ------------------------------------------------------------------------
\* C3: in every state 0 <= buffer_count <= window_size,
\* 0 <= buffer_index < window_size, and the buffer's allocated length is
\* window_size.
C3_RingBufferBounds ==
  /\ 0 <= seg.buffer_count /\ seg.buffer_count <= seg.window_size
  /\ 0 <= seg.buffer_index /\ seg.buffer_index < seg.window_size
  /\ Len(seg.turbulence_buffer) = seg.window_size

\* a buffer of a changed capacity, filled and wrapped around
C3_Witness ==
  /\ last_op = "add_turbulence"
  /\ seg.window_size # SEG_WINDOW_SIZE
  /\ seg.buffer_count = seg.window_size
  /\ seg.buffer_index = seg.window_size - 1
  /\ seg.packet_index > seg.window_size

\* the condition reset(full=True) establishes
FullResetCondition(s) ==
  /\ s.turbulence_buffer = Zeros(s.window_size)
  /\ s.buffer_index = 0
  /\ s.buffer_count = 0
  /\ s.current_moving_variance = 0
  /\ s.state = STATE_IDLE
  /\ s.lowpass_filter = LowPassReset(s.lowpass_filter)
  /\ s.hampel_filter.count = 0
  /\ s.hampel_filter.index = 0

\* C7: after a successful segmentation_window_size command, and after
\* load_and_apply of a file that holds a window size, the context is in the
\* full-reset condition for the new capacity.
C7_WindowChangeFullReset ==
  [][(\/ last_op' = "segmentation_window_size" /\ last_ok'
      \/ last_op' = "load_and_apply" /\ nvs_file.exists /\ nvs_file.has_seg
           /\ nvs_file.has_window)
       => FullResetCondition(seg')]_vars

\* ------------------------------------------------------------------------
\* Specification SpecNode: main() from boot, run_nbvi_calibration and the
\* main loop. pc is the position of the single thread:
\*   "boot"      main() before the calibration decision
\*   "gain_lock" run_gain_lock's read loop
\*   "collect"   run_nbvi_calibration's collection loop
\*   "analyze"   run_nbvi_calibration after the collection loop
\*   "loop_top"  top of the main loop
\*   "loop_read" main loop, after check_messages, at wlan.csi_read()
\* ------------------------------------------------------------------------
CalPcs == {"gain_lock", "collect", "analyze"}
LoopPcs == {"loop_top", "loop_read"}
RateValues == {0, TRAFFIC_GENERATOR_RATE}
Channels == {1, 6}
NodeTurbValues == {0, 314}
Scales == {50, FxOne}

\* NBVICalibrator(...): any old buffer file is removed, a new one opened
NBVICalibratorInit(c) ==
  [c EXCEPT !.file_open = TRUE, !.file_exists = TRUE, !.packet_count = 0]

\* free_buffer()
free_buffer(c) == [c EXCEPT !.file_open = FALSE, !.file_exists = FALSE]

\* run_nbvi_calibration up to its first read: the flag is set, and a platform
\* without gain lock goes straight to the collection
CalEnter(caller, supported) ==
  LET c == [cal EXCEPT !.runs = cal.runs + 1, !.caller = caller,
                       !.outcome = "none", !.gain_count = 0,
                       !.timeout_counter = 0]
  IN /\ g_state' = [g_state EXCEPT !.calibration_mode = TRUE]
     /\ cal' = IF supported THEN c ELSE NBVICalibratorInit(c)
     /\ pc' = IF supported THEN "gain_lock" ELSE "collect"

\* where the thread continues when run_nbvi_calibration returns
ReturnPc(caller) == IF caller = "boot" THEN "loop_top" ELSE "loop_read"

NodeHistory(op) ==
  /\ UNCHANGED <<nbvi, flt>>
  /\ last_op' = op
  /\ last_call' = NoCall
  /\ last_payload' = NoPayload
  /\ escaped' = "none"
  /\ reply' = NoReply
  /\ pristine' = FALSE
  /\ recent' = IF op = "process_frame" /\ seg'.buffer_count > 0
                 THEN Push(recent, seg'.last_turbulence, seg.window_size)
                 ELSE KeepRecent
  /\ UNCHANGED <<fresh, fresh_valid>>

InitNode ==
  /\ seg = SegInit(SEG_WINDOW_SIZE, SEG_THRESHOLD, FALSE, FALSE, HampelWin, FxOne)
  /\ static_sel \in {NoneBand, DEFAULT_SUBCARRIERS}
  /\ config_sel = static_sel
  /\ nvs_file \in InitFiles
  /\ tg = TgInit
  /\ g_state = GStateInit
  /\ cal = CalIdle
  /\ pc = "boot"
  /\ publish_counter = 0
  /\ config_norm = FxOne
  /\ HistoryInit
  /\ UnitsIdle

\* main(): load_and_apply, traffic generator start, calibration decision
Boot ==
  \E gw_ok \in BOOLEAN, thread_ok \in BOOLEAN, supported \in BOOLEAN :
    LET r == TgStart(tg, TRAFFIC_GENERATOR_RATE, gw_ok, thread_ok)
        sel == load_and_apply_sel(config_sel, nvs_file)
    IN /\ pc = "boot"
       /\ UNCHANGED <<nvs_file, static_sel, publish_counter, config_norm,
                      responses, evals, fed>>
       /\ IF ~r.ok
            THEN \* machine.reset(): the node starts over
                 /\ last_ok' = FALSE
                 /\ UNCHANGED <<seg, config_sel, tg, g_state, cal, pc>>
            ELSE /\ last_ok' = TRUE
                 /\ seg' = load_and_apply_seg(seg, nvs_file)
                 /\ config_sel' = sel
                 /\ tg' = r.t
                 /\ IF sel = NoneBand
                      THEN CalEnter("boot", supported)
                      ELSE /\ pc' = "loop_top"
                           /\ UNCHANGED <<g_state, cal>>
       /\ NodeHistory("boot")

\* run_gain_lock: one wlan.csi_read()
GainLockRead ==
  \E frame \in BOOLEAN :
    /\ pc = "gain_lock"
    /\ last_ok' = frame
    /\ UNCHANGED <<seg, config_sel, config_norm, static_sel, nvs_file, tg, g_state,
                   publish_counter, responses, evals, fed>>
    /\ LET n == IF frame THEN cal.gain_count + 1 ELSE cal.gain_count
           c == [cal EXCEPT !.gain_count = n]
       IN IF n < GAIN_LOCK_PACKETS
            THEN cal' = c /\ pc' = "gain_lock"
            ELSE cal' = NBVICalibratorInit(c) /\ pc' = "collect"
    /\ NodeHistory("gain_lock")

\* run_nbvi_calibration: one iteration of the collection loop
CollectRead ==
  \E frame \in BOOLEAN :
    /\ pc = "collect"
    /\ last_ok' = frame
    /\ UNCHANGED <<seg, config_sel, config_norm, static_sel, nvs_file, tg, g_state,
                   publish_counter, evals, fed>>
    /\ IF frame
         THEN LET n == IF cal.packet_count >= NBVI_BUFFER_SIZE
                         THEN NBVI_BUFFER_SIZE ELSE cal.packet_count + 1
              IN /\ cal' = [cal EXCEPT !.packet_count = n, !.timeout_counter = 0]
                 /\ pc' = IF n < NBVI_BUFFER_SIZE THEN "collect" ELSE "analyze"
                 /\ UNCHANGED responses
         ELSE LET t == cal.timeout_counter + 1
              IN IF t >= max_timeout
                   THEN \* return False
                        /\ cal' = [cal EXCEPT !.timeout_counter = t,
                                              !.outcome = "timeout"]
                        /\ pc' = ReturnPc(cal.caller)
                        /\ responses' = IF cal.caller = "boot" THEN responses ELSE 2
                   ELSE /\ cal' = [cal EXCEPT !.timeout_counter = t]
                        /\ pc' = "collect"
                        /\ UNCHANGED responses
    /\ NodeHistory("collect")

\* run_nbvi_calibration from the end of the collection to its return;
\* res is what nbvi_calibrator.calibrate does:
\*   "band"      returns a selected band of 12 and a scale
\*   "fallback"  returns list(current_band) and a scale
\*   "no_band"   returns (None, 1.0)
\*   "exception" raises
Calibrate ==
  \E res \in {"band", "fallback", "no_band", "exception"}, scale \in Scales :
    LET success == res \in {"band", "fallback"}
    IN /\ pc = "analyze"
       /\ last_ok' = success
       /\ UNCHANGED <<static_sel, nvs_file, tg, publish_counter, evals, fed>>
       /\ config_sel' = IF res = "band" THEN AltBand ELSE DEFAULT_SUBCARRIERS
       /\ config_norm' = IF success THEN scale ELSE FxOne
       /\ seg' = IF success THEN set_normalization_scale(seg, scale) ELSE seg
       /\ cal' = [free_buffer(cal) EXCEPT !.outcome = res]
       /\ g_state' = [g_state EXCEPT !.calibration_mode = FALSE]
       /\ pc' = ReturnPc(cal.caller)
       /\ responses' = IF cal.caller = "boot" THEN responses ELSE 2
       /\ NodeHistory("calibrate")

\* main loop: an iteration that finds calibration_mode set sleeps and continues
LoopSuspended ==
  /\ pc = "loop_top"
  /\ g_state.calibration_mode
  /\ last_ok' = TRUE
  /\ UNCHANGED <<seg, config_sel, config_norm, static_sel, nvs_file, tg, g_state,
                 cal, pc, publish_counter, responses, evals, fed>>
  /\ NodeHistory("suspended")

\* main loop: mqtt_handler.check_messages() with no message pending
LoopNoMessage ==
  /\ pc = "loop_top"
  /\ ~g_state.calibration_mode
  /\ pc' = "loop_read"
  /\ last_ok' = TRUE
  /\ UNCHANGED <<seg, config_sel, config_norm, static_sel, nvs_file, tg, g_state,
                 cal, publish_counter, responses, evals, fed>>
  /\ NodeHistory("no_message")

\* main loop: check_messages() delivers segmentation_threshold
LoopCmdThreshold ==
  \E p \in Payloads({218}) :
    /\ pc = "loop_top"
    /\ ~g_state.calibration_mode
    /\ cmd_segmentation_threshold(p)
    /\ pc' = "loop_read"
    /\ UNCHANGED <<config_norm, static_sel, g_state, cal, publish_counter, evals, fed>>
    /\ NodeHistory("segmentation_threshold")

\* main loop: check_messages() delivers traffic_generator_rate
LoopCmdTrafficRate ==
  \E p \in Payloads(RateValues), gw_ok \in BOOLEAN, thread_ok \in BOOLEAN :
    /\ pc = "loop_top"
    /\ ~g_state.calibration_mode
    /\ cmd_traffic_generator_rate(p, gw_ok, thread_ok)
    /\ pc' = "loop_read"
    /\ UNCHANGED <<config_norm, static_sel, g_state, cal, publish_counter, evals, fed>>
    /\ NodeHistory("traffic_generator_rate")

\* main loop: check_messages() delivers factory_reset; the handler was given
\* run_nbvi_calibration and calls it after nvs.erase()
LoopCmdFactoryReset ==
  \E gw_ok \in BOOLEAN, thread_ok \in BOOLEAN, supported \in BOOLEAN :
    LET r == factory_reset_core(seg, config_sel, tg, nvs_file, gw_ok, thread_ok)
    IN /\ pc = "loop_top"
       /\ ~g_state.calibration_mode
       /\ cal.runs < MaxRuns
       /\ seg' = r.seg
       /\ config_sel' = r.sel
       /\ tg' = r.tg
       /\ nvs_file' = r.file
       /\ responses' = 1
       /\ last_ok' = ~r.raised
       /\ UNCHANGED <<config_norm, static_sel, publish_counter, evals, fed>>
       /\ IF r.raised
            THEN /\ pc' = "loop_read"
                 /\ UNCHANGED <<g_state, cal>>
            ELSE CalEnter("factory_reset", supported)
       /\ NodeHistory("factory_reset")

\* main loop from wlan.csi_read() to the end of the iteration
LoopReadFrame ==
  \E frame \in BOOLEAN, v \in NodeTurbValues, ch \in Channels :
    /\ pc = "loop_read"
    /\ pc' = "loop_top"
    /\ last_ok' = frame
    /\ UNCHANGED <<config_sel, config_norm, static_sel, nvs_file, tg, cal, responses>>
    /\ IF ~frame
         THEN UNCHANGED <<seg, g_state, publish_counter, evals, fed>>
         ELSE LET s1 == add_turbulence(seg, v)
                  n == publish_counter + 1
                  changed == g_state.current_channel # 0
                               /\ ch # g_state.current_channel
                  s2 == IF changed THEN reset(s1, TRUE) ELSE s1
              IN /\ fed < NodePackets
                 /\ fed' = fed + 1
                 /\ IF n >= publish_rate
                      THEN /\ seg' = update_state(s2)
                           /\ g_state' = [g_state EXCEPT !.current_channel = ch]
                           /\ evals' = Record(evals, seg')
                           /\ publish_counter' = 0
                      ELSE /\ seg' = s1
                           /\ publish_counter' = n
                           /\ UNCHANGED <<g_state, evals>>
    /\ NodeHistory(IF frame THEN "process_frame" ELSE "no_frame")

NextNode ==
  \/ Boot
  \/ GainLockRead
  \/ CollectRead
  \/ Calibrate
  \/ LoopSuspended
  \/ LoopNoMessage
  \/ LoopCmdThreshold
  \/ LoopCmdTrafficRate
  \/ LoopCmdFactoryReset
  \/ LoopReadFrame

SpecNode == InitNode /\ [][NextNode]_vars

\* ------------------------------------------------------------------------
\* Properties of SpecNode
\* ------------------------------------------------------------------------
\* the step on which run_nbvi_calibration returns to its caller
CalReturns == pc \in CalPcs /\ pc' \notin CalPcs

\* C4: whichever way a calibration run ends (band selected, no valid band,
\* exception during the analysis, collection timeout), when it returns the
\* buffer file is closed and deleted.
C4_BufferAlwaysFreed ==
  [][CalReturns => ~cal'.file_open /\ ~cal'.file_exists]_vars

\* C5: when a calibration run that failed (no band, exception, collection
\* timeout) returns, config.SELECTED_SUBCARRIERS is the default band 11..22.
C5_FailureFallsBackToDefault ==
  [][CalReturns /\ cal'.outcome \in {"no_band", "exception", "timeout"}
       => config_sel' = DEFAULT_SUBCARRIERS]_vars

\* C6: a step of the main loop taken while calibration_mode is set processes
\* no frame, dispatches no command and leaves the segmentation context alone.
C6_LoopSuspendedWhileCalibrating ==
  [][g_state.calibration_mode /\ pc \in LoopPcs
       => /\ seg' = seg
          /\ fed' = fed
          /\ publish_counter' = publish_counter
          /\ responses' = responses
          /\ last_op' \notin {"process_frame", "segmentation_threshold",
                              "traffic_generator_rate", "factory_reset"}]_vars

\* ------------------------------------------------------------------------
\* Further properties of Spec
\* ------------------------------------------------------------------------
\* the buffer read from the oldest slot (the one the write index points at)
\* to the newest
RingOrder(s) ==
  [i \in 1..s.window_size |->
     s.turbulence_buffer[((s.buffer_index + i - 1) % s.window_size) + 1]]

\* C11: once window_size values have been added since the buffer was last
\* emptied, the buffer holds exactly the window_size most recently stored
\* values, oldest at the write index, and buffer_count is window_size.
C11_BufferHoldsNewestWindow ==
  Len(recent) = seg.window_size
    => /\ seg.buffer_count = seg.window_size
       /\ RingOrder(seg) = recent

\* the write index has wrapped and an old value was overwritten by a new one
C11_Witness ==
  /\ last_op = "add_turbulence"
  /\ Len(recent) = seg.window_size
  /\ fed > seg.window_size + 1
  /\ seg.buffer_index # 0
  /\ recent[1] # recent[Len(recent)]
  /\ recent[1] # 0

\* ------------------------------------------------------------------------
\* Specification SpecChain: the filter chain of add_turbulence, with a
\* normalization scale other than 1.0 and with filters whose filter() raises
\* ------------------------------------------------------------------------
ChainTurbValues == {0, 2, 628}
ChainScales == {50, FxOne}

InitChain ==
  /\ seg \in {SegInit(WinMin, 218, lp, hp, HampelWin, sc) :
                 lp \in BOOLEAN, hp \in BOOLEAN, sc \in ChainScales}
  /\ static_sel = DEFAULT_SUBCARRIERS
  /\ config_sel = static_sel
  /\ nvs_file = NoFile
  /\ tg = TgInit
  /\ NodeIdle
  /\ HistoryInit
  /\ UnitsIdle

ChainAddTurbulence ==
  \E v \in ChainTurbValues, hr \in BOOLEAN, lr \in BOOLEAN :
    /\ fed < ChainPackets
    /\ hr => seg.hampel_filter.present
    /\ lr => seg.lowpass_filter.present
    /\ seg' = add_turbulence_faults(seg, v, hr, lr)
    /\ fed' = fed + 1
    /\ recent' = Push(recent, seg'.last_turbulence, seg.window_size)
    /\ last_call' = [raw |-> v, hampel_raises |-> hr, lowpass_raises |-> lr]
    /\ last_payload' = NoPayload
    /\ escaped' = "none"
    /\ reply' = NoReply
    /\ UNCHANGED <<nbvi, flt>>
    /\ last_op' = "add_turbulence"
    /\ last_ok' = TRUE
    /\ fresh_valid' = FALSE
    /\ UNCHANGED <<config_sel, nvs_file, tg, responses, pristine, fresh, evals>>
    /\ UNCHANGED nodeVars

NextChain ==
  \/ ChainAddTurbulence
  \/ UpdateState

SpecChain == InitChain /\ [][NextChain]_vars

\* ------------------------------------------------------------------------
\* Properties of SpecChain
\* ------------------------------------------------------------------------
\* what stage f of the chain hands on for input x: its output, or x itself
\* when the context has no such filter or the filter raised
HampelStage(s, x, raises) ==
  IF s.hampel_filter.present /\ ~raises
    THEN HampelFilterStep(s.hampel_filter, x).out ELSE x

LowPassStage(s, x, raises) ==
  IF s.lowpass_filter.present /\ ~raises
    THEN LowPassFilterStep(s.lowpass_filter, x).out ELSE x

C13_FilterFaultPassThrough ==
  [][(last_op' = "add_turbulence"
        /\ (last_call'.hampel_raises \/ last_call'.lowpass_raises))
       => LET n == FMul(last_call'.raw, seg.normalization_scale)
              h == HampelStage(seg, n, last_call'.hampel_raises)
              l == LowPassStage(seg, h, last_call'.lowpass_raises)
          IN /\ seg'.turbulence_buffer[seg.buffer_index + 1] = l
             /\ seg'.buffer_index = (seg.buffer_index + 1) % seg.window_size
             /\ seg'.buffer_count =
                  IF seg.buffer_count < seg.window_size
                    THEN seg.buffer_count + 1 ELSE seg.buffer_count
             /\ seg'.packet_index = seg.packet_index + 1]_vars

\* the Hampel filter raised on a packet and the low-pass filter, already
\* running, still smoothed the unfiltered value
C13_Witness ==
  /\ last_op = "add_turbulence"
  /\ last_call.hampel_raises /\ ~last_call.lowpass_raises
  /\ seg.lowpass_filter.present /\ seg.lowpass_filter.initialized
  /\ seg.lowpass_filter.x_prev = FMul(last_call.raw, seg.normalization_scale)
  /\ seg.last_turbulence # seg.lowpass_filter.x_prev
  /\ seg.buffer_count = seg.window_size

\* ------------------------------------------------------------------------
\* Further properties of SpecCfg
\* ------------------------------------------------------------------------
\* C14: after every factory_reset command the configuration file does not
\* exist and threshold and window size are SEG_THRESHOLD and SEG_WINDOW_SIZE,
\* with the traffic generator running or not.
C14_FactoryResetClearsAll ==
  [][last_op' = "factory_reset"
       => /\ ~nvs_file'.exists
          /\ seg'.threshold = SEG_THRESHOLD
          /\ seg'.window_size = SEG_WINDOW_SIZE]_vars

\* ------------------------------------------------------------------------
\* Specification SpecCmd: process_command on every class of payload
\* ------------------------------------------------------------------------
\* the 'value' payloads, with JSON null added (float(None) raises TypeError)
CmdPayloads(values) ==
  Payloads(values) \cup {[NoPayload EXCEPT !.kind = "null"]}

\* data handed to process_command: shape is the command name for an object
\* with a known cmd, else the class of the payload
\*   "bad_utf8"        bytes that do not decode
\*   "bad_json"        text that is no JSON
\*   "json_number"     a JSON number or null
\*   "json_string_cmd" a JSON string that contains the letters cmd
\*   "json_list"       a JSON array, or a string without cmd
\*   "no_cmd"          an object without the cmd field
\*   "unknown"         an object whose cmd is no known command
CmdThresholdValues == {218, 1001}
CmdWindowValues == {WinMin, WinMax + 1}
CmdIndexPayloads ==
  {p \in IndexPayloads : p.kind = "list" => p.indices \in {AltBand, <<7, 7>>, <<3, 64>>}}

\* cmd values that name no command ({"cmd": "reboot"}, {"cmd": 5})
UnknownCommands == {"reboot", "5"}

Datas ==
  {[shape |-> sh, cmd |-> "", p |-> NoPayload] :
      sh \in {"bad_utf8", "bad_json", "json_number", "json_string_cmd",
              "json_list", "no_cmd"}}
    \cup {[shape |-> "unknown", cmd |-> c, p |-> NoPayload] : c \in UnknownCommands}
    \cup {[shape |-> c, cmd |-> c, p |-> NoPayload] : c \in {"info", "stats", "factory_reset"}}
    \cup {[shape |-> "segmentation_threshold", cmd |-> "segmentation_threshold", p |-> q] :
            q \in CmdPayloads(CmdThresholdValues)}
    \cup {[shape |-> "segmentation_window_size", cmd |-> "segmentation_window_size", p |-> q] :
            q \in CmdPayloads(CmdWindowValues)}
    \cup {[shape |-> "traffic_generator_rate", cmd |-> "traffic_generator_rate", p |-> q] :
            q \in CmdPayloads(RateValues)}
    \cup {[shape |-> "subcarrier_selection", cmd |-> "subcarrier_selection", p |-> q] :
            q \in CmdIndexPayloads}

\* whether the gateway answers and the thread starts matters only to the
\* commands that start the traffic generator
StartOutcomes(d) ==
  IF d.shape \in {"traffic_generator_rate", "factory_reset"} THEN BOOLEAN ELSE {TRUE}

\* the exception raised before a handler is dispatched
ParseRaises(d) ==
  CASE d.shape = "bad_utf8" -> "UnicodeError"
    [] d.shape = "bad_json" -> "ValueError"
    [] d.shape = "json_number" -> "TypeError"
    [] d.shape = "json_string_cmd" -> "TypeError"
    [] OTHER -> "none"

\* the exception that leaves the handler of a known command
HandlerRaises(d) ==
  CASE d.shape \in {"segmentation_threshold", "segmentation_window_size",
                    "traffic_generator_rate"} /\ d.p.kind = "null" -> "TypeError"
    [] d.shape = "traffic_generator_rate" /\ d.p.kind = "num"
         /\ d.p.v > 0 /\ d.p.v <= TRAFFIC_RATE_MAX /\ tg.running -> "AttributeError"
    [] d.shape = "factory_reset"
         /\ (static_sel = NoneBand \/ (TRAFFIC_GENERATOR_RATE > 0 /\ tg.running))
         -> "AttributeError"
    [] OTHER -> "none"

\* variant: the handler of process_command catches ValueError only
CatchesValueErrorOnly(exc) == exc = "ValueError"

\* process_command: except Exception
ProcessCommandCatches(exc) ==
  exc \in {"UnicodeError", "ValueError", "TypeError", "AttributeError"}

InitCmd ==
  /\ seg = SegInit(SEG_WINDOW_SIZE, SEG_THRESHOLD, FALSE, FALSE, HampelWin, FxOne)
  /\ static_sel = DEFAULT_SUBCARRIERS
  /\ config_sel = static_sel
  /\ nvs_file = NoFile
  /\ tg \in {TgInit, [running |-> TRUE, rate_pps |-> TRAFFIC_GENERATOR_RATE]}
  /\ NodeIdle
  /\ HistoryInit
  /\ UnitsIdle

CmdAddTurbulence == AddTurbulenceOp(CfgTurbValues, CmdPackets)

CmdUpdateState ==
  /\ seg' = update_state(seg)
  /\ last_ok' = TRUE
  /\ Other("update_state")
  /\ UNCHANGED <<config_sel, nvs_file, tg, responses>>
  /\ UNCHANGED nodeVars

\* process_command(data)
ProcessCommand ==
  \E d \in Datas : \E gw_ok \in StartOutcomes(d), thread_ok \in StartOutcomes(d) :
    LET exc == IF ParseRaises(d) # "none" THEN ParseRaises(d) ELSE HandlerRaises(d)
        caught == exc # "none" /\ ProcessCommandCatches(exc)
    IN /\ CASE d.shape = "segmentation_threshold" -> cmd_segmentation_threshold(d.p)
            [] d.shape = "segmentation_window_size" -> cmd_segmentation_window_size(d.p)
            [] d.shape = "subcarrier_selection" -> cmd_subcarrier_selection(d.p)
            [] d.shape = "traffic_generator_rate" ->
                 cmd_traffic_generator_rate(d.p, gw_ok, thread_ok)
            [] d.shape = "factory_reset" -> cmd_factory_reset_plain(gw_ok, thread_ok)
            [] d.shape \in {"info", "stats"} ->
                 /\ responses' = 1
                 /\ last_ok' = TRUE
                 /\ UNCHANGED <<seg, config_sel, nvs_file, tg>>
            [] OTHER ->
                 /\ responses' = IF exc = "none" \/ caught THEN 1 ELSE 0
                 /\ last_ok' = FALSE
                 /\ UNCHANGED <<seg, config_sel, nvs_file, tg>>
       /\ escaped' = IF exc # "none" /\ ~caught THEN exc ELSE "none"
       /\ reply' = CASE exc # "none" /\ ~caught -> NoReply
                     [] exc # "none" -> [kind |-> "failed", name |-> ""]
                     [] d.shape \in {"json_list", "no_cmd"} ->
                          [kind |-> "missing_cmd", name |-> ""]
                     [] d.shape = "unknown" -> [kind |-> "unknown", name |-> d.cmd]
                     [] last_ok' -> [kind |-> "ok", name |-> ""]
                     [] OTHER -> [kind |-> "error", name |-> ""]
       /\ UNCHANGED <<nbvi, flt>>
       /\ last_op' = IF d.shape = "unknown" THEN d.cmd ELSE d.shape
       /\ last_payload' = d.p
       /\ last_call' = NoCall
       /\ pristine' = FALSE
       /\ recent' = KeepRecent
       /\ UNCHANGED <<fresh, fresh_valid, fed, evals>>
       /\ UNCHANGED nodeVars

NextCmd ==
  \/ CmdAddTurbulence
  \/ CmdUpdateState
  \/ ProcessCommand

SpecCmd == InitCmd /\ [][NextCmd]_vars

\* the configuration commands that take a parameter
ConfigOps ==
  {"segmentation_threshold", "segmentation_window_size", "subcarrier_selection"}

\* the parameter is missing, not a number (or not a list), or out of range
InvalidParameter(op, p) ==
  \/ p.kind \in {"missing", "text", "nan", "null"}
  \/ /\ op = "segmentation_threshold"
     /\ p.kind = "num"
     /\ (p.v < SEG_THRESHOLD_MIN \/ p.v > SEG_THRESHOLD_MAX)
  \/ /\ op = "segmentation_window_size"
     /\ p.kind = "num"
     /\ (p.v < SEG_WINDOW_SIZE_MIN \/ p.v > SEG_WINDOW_SIZE_MAX)
  \/ /\ op = "subcarrier_selection"
     /\ p.kind = "list"
     /\ \/ Len(p.indices) = 0
        \/ \E i \in 1..Len(p.indices) :
             p.indices[i] < SUBCARRIER_INDEX_MIN \/ p.indices[i] > SUBCARRIER_INDEX_MAX

\* C15: a configuration command whose parameter is missing, non-numeric or
\* out of range is answered with an error response and leaves the context
\* (threshold, window size, ring buffer, state), the subcarrier selection and
\* the persisted configuration exactly as they were.
C15_InvalidParameterRejected ==
  [][(last_op' \in ConfigOps /\ InvalidParameter(last_op', last_payload'))
       => /\ ~last_ok'
          /\ reply'.kind \in {"error", "failed"}
          /\ seg' = seg
          /\ config_sel' = config_sel
          /\ nvs_file' = nvs_file]_vars

\* ------------------------------------------------------------------------
\* Further properties of SpecNode
\* ------------------------------------------------------------------------
\* the step on which process_command returns to the main loop: at once for a
\* handler that runs no calibration, at the return of run_nbvi_calibration
\* for a factory_reset that started one
ProcessCommandReturns ==
  \/ /\ pc = "loop_top"
     /\ pc' = "loop_read"
     /\ last_op' \in {"segmentation_threshold", "traffic_generator_rate",
                      "factory_reset"}
  \/ CalReturns /\ cal.caller = "factory_reset"

\* C16: every payload handed to process_command results in exactly one
\* message on the response topic, never zero and never more than one.
C16_ExactlyOneResponse ==
  [][ProcessCommandReturns => responses' = 1]_vars

\* ------------------------------------------------------------------------
\* Further properties of SpecCmd
\* ------------------------------------------------------------------------
\* payloads that are no JSON object with a cmd field
MalformedShapes ==
  {"bad_utf8", "bad_json", "json_number", "json_string_cmd", "json_list", "no_cmd"}

\* what last_op is after a call of process_command
ProcessOps ==
  MalformedShapes \cup UnknownCommands \cup ConfigOps
    \cup {"info", "stats", "factory_reset", "traffic_generator_rate"}

NvsThresholds == {218, SEG_THRESHOLD_MAX}
NvsWindows == SEG_WINDOW_SIZE_MIN..SEG_WINDOW_SIZE_MAX
NvsScales == {50, FxOne}

\* files as they can be found at boot: written by save_full_config, cut down
\* to some of their keys, not JSON at all, or absent
NvsFiles ==
  InitFiles
    \cup {[NoFile EXCEPT !.exists = TRUE, !.unreadable = TRUE],
          [NoFile EXCEPT !.exists = TRUE, !.has_seg = TRUE],
          [NoFile EXCEPT !.exists = TRUE, !.has_sub = TRUE],
          [NoFile EXCEPT !.exists = TRUE, !.has_tg = TRUE, !.rate = TRAFFIC_GENERATOR_RATE],
          [NoFile EXCEPT !.exists = TRUE, !.has_seg = TRUE,
                         !.has_threshold = TRUE, !.threshold = 218,
                         !.has_window = TRUE, !.window_size = WinMin,
                         !.has_sub = TRUE, !.has_indices = TRUE, !.indices = AltBand]}

\* the context main() constructs before load_and_apply
FreshContext ==
  SegInit(SEG_WINDOW_SIZE, SEG_THRESHOLD, FALSE, FALSE, HampelWin, FxOne)

InitNvs ==
  /\ \E w \in NvsWindows, t \in NvsThresholds, sc \in NvsScales :
       seg = SegInit(w, t, FALSE, FALSE, HampelWin, sc)
  /\ static_sel = DEFAULT_SUBCARRIERS
  /\ config_sel \in {DEFAULT_SUBCARRIERS, AltBand}
  /\ nvs_file \in NvsFiles
  /\ tg = TgInit
  /\ NodeIdle
  /\ HistoryInit
  /\ UnitsIdle

\* history bookkeeping of the operations of SpecNvs
NvsHistory(op) ==
  /\ UNCHANGED <<nbvi, flt>>
  /\ last_op' = op
  /\ pristine' = FALSE
  /\ recent' = KeepRecent
  /\ last_call' = NoCall
  /\ last_payload' = NoPayload
  /\ reply' = NoReply
  /\ UNCHANGED <<fed, evals, responses, tg>>
  /\ UNCHANGED nodeVars

NvsAddTurbulence ==
  /\ seg.packet_index = 0
  /\ seg' = add_turbulence(seg, 314)
  /\ last_ok' = TRUE
  /\ escaped' = "none"
  /\ UNCHANGED <<config_sel, nvs_file, fresh, fresh_valid>>
  /\ NvsHistory("add_turbulence")

\* save_full_config(seg, config, traffic_gen)
NvsSave ==
  /\ nvs_file' = save_full_config(seg, config_sel, tg)
  /\ last_ok' = TRUE
  /\ escaped' = "none"
  /\ UNCHANGED <<seg, config_sel, fresh, fresh_valid>>
  /\ NvsHistory("save_full_config")

\* load_and_apply(fresh, config) on a newly constructed context
NvsLoadFresh ==
  /\ fresh' = load_and_apply_seg(FreshContext, nvs_file)
  /\ fresh_valid' = TRUE
  /\ last_ok' = ~FileIsEmpty(nvs_file)
  /\ escaped' = load_and_apply_raises(nvs_file)
  /\ UNCHANGED <<seg, config_sel, nvs_file>>
  /\ NvsHistory("load_and_apply_fresh")

\* load_and_apply(seg, config) on the context in use
NvsLoadAndApply ==
  /\ seg' = load_and_apply_seg(seg, nvs_file)
  /\ config_sel' = load_and_apply_sel(config_sel, nvs_file)
  /\ last_ok' = ~FileIsEmpty(nvs_file)
  /\ escaped' = load_and_apply_raises(nvs_file)
  /\ UNCHANGED <<nvs_file, fresh, fresh_valid>>
  /\ NvsHistory("load_and_apply")

NextNvs ==
  \/ NvsAddTurbulence
  \/ NvsSave
  \/ NvsLoadFresh
  \/ NvsLoadAndApply

SpecNvs == InitNvs /\ [][NextNvs]_vars

\* C18: save_full_config followed by load_and_apply on a fresh context gives
\* a context with the threshold, window_size and normalization_scale of the
\* saved one.
C18_SaveLoadRoundTrip ==
  [][(last_op = "save_full_config" /\ last_op' = "load_and_apply_fresh")
       => /\ fresh'.threshold = seg.threshold
          /\ fresh'.window_size = seg.window_size
          /\ fresh'.normalization_scale = seg.normalization_scale]_vars

\* C19: load_and_apply with no file, or a file that cannot be read, leaves the
\* configuration of the context unchanged; with a file that lacks some keys
\* it changes only the fields the file holds: an absent threshold, window
\* size, normalization scale or subcarrier selection keeps its value.
C19_LoadKeepsAbsentFields ==
  [][last_op' = "load_and_apply"
       => /\ (~nvs_file.exists \/ nvs_file.unreadable)
               => /\ seg' = seg
                  /\ config_sel' = config_sel
          /\ ~(nvs_file.has_seg /\ nvs_file.has_threshold)
               => seg'.threshold = seg.threshold
          /\ ~(nvs_file.has_seg /\ nvs_file.has_window)
               => seg'.window_size = seg.window_size
          /\ seg'.normalization_scale = seg.normalization_scale
          /\ ~(nvs_file.has_sub /\ nvs_file.has_indices)
               => config_sel' = config_sel]_vars

\* a file holding only a window size was applied to a context whose threshold
\* is not the default and whose buffer held a packet
C19_Witness ==
  /\ last_op = "load_and_apply"
  /\ nvs_file.exists /\ nvs_file.has_window /\ ~nvs_file.has_threshold
  /\ ~nvs_file.has_sub
  /\ seg.window_size = nvs_file.window_size
  /\ seg.threshold = SEG_THRESHOLD_MAX
  /\ seg.normalization_scale = 50
  /\ config_sel = AltBand
  /\ seg.packet_index = 1

\* ------------------------------------------------------------------------
\* Further properties of SpecCmd: the subcarrier selection
\* ------------------------------------------------------------------------
\* a band of exactly 12 distinct indices, each in [0, 63]
IsValidBand(b) ==
  /\ Len(b) = 12
  /\ \A i \in 1..Len(b) : b[i] >= 0 /\ b[i] <= 63
  /\ \A i, j \in 1..Len(b) : i # j => b[i] # b[j]

\* C20: in every reachable state the active subcarrier selection consists of
\* exactly 12 distinct indices, each within [0, 63].
C20_SelectionIsTwelveDistinct == IsValidBand(config_sel)

\* ------------------------------------------------------------------------
\* Specification SpecScale: the normalization scale of a context
\* ------------------------------------------------------------------------
\* add_turbulence calls in one behaviour of SpecScale
ScalePackets == 3

\* scales handed to the constructor and to set_normalization_scale:
\* 0.05, 0.1, 0.5, 1.0, 10.0, 20.0
ScaleValues == {5, ScaleMin, 50, FxOne, ScaleMax, 2000}

\* SegmentationContext(normalization_scale=sc): the value is stored as given
InitScale ==
  /\ \E sc \in ScaleValues :
       seg = SegInit(SEG_WINDOW_SIZE, SEG_THRESHOLD, FALSE, FALSE, HampelWin, sc)
  /\ static_sel = DEFAULT_SUBCARRIERS
  /\ config_sel = static_sel
  /\ nvs_file = NoFile
  /\ tg = TgInit
  /\ NodeIdle
  /\ HistoryInit
  /\ UnitsIdle

ScaleAddTurbulence == AddTurbulenceOp(CfgTurbValues, ScalePackets)

\* seg.set_normalization_scale(scale)
SetNormalizationScale ==
  \E scale \in ScaleValues :
    /\ seg' = set_normalization_scale(seg, scale)
    /\ last_ok' = TRUE
    /\ Other("set_normalization_scale")
    /\ UNCHANGED <<config_sel, nvs_file, tg, responses>>
    /\ UNCHANGED nodeVars

NextScale ==
  \/ ScaleAddTurbulence
  \/ UpdateState
  \/ SetNormalizationScale

SpecScale == InitScale /\ [][NextScale]_vars

\* C21: in every reachable state the normalization scale of the context lies
\* within [0.1, 10.0].
C21_ScaleWithinBounds ==
  seg.normalization_scale >= ScaleMin /\ seg.normalization_scale <= ScaleMax

\* ------------------------------------------------------------------------
\* Specification SpecSelect: NBVICalibrator._select_with_spacing
\* ------------------------------------------------------------------------
\* the subcarriers a candidate list is drawn from (64 in the program)
SelSubcarriers == 6
\* k, the size of the band to select (12 in the program)
SelK == 4
\* the candidates of phase 1 that are always taken (5 in the program)
SelTop == 2
\* the largest min_spacing the calibrator is constructed with
SelMaxSpacing == 3

\* the least element of a non-empty set of integers: min(...)
SetMin(S) == CHOOSE x \in S : \A y \in S : x <= y

\* list.sort() on a list of integers
SortAscending(q) ==
  LET RECURSIVE Sorted(_)
      Sorted(r) ==
        IF Len(r) = 0 THEN <<>>
        ELSE LET m == SetMin({r[i] : i \in 1..Len(r)})
                 at == SetMin({i \in 1..Len(r) : r[i] = m})
             IN <<m>> \o Sorted(SubSeq(r, 1, at - 1) \o SubSeq(r, at + 1, Len(r)))
  IN Sorted(q)

\* sc in selected
InList(sc, selected) == \E j \in 1..Len(selected) : selected[j] = sc

\* phase 1: the subcarriers of sorted_metrics[:5]
select_phase_top(sorted_metrics) ==
  SubSeq(sorted_metrics, 1, IF Len(sorted_metrics) < SelTop THEN Len(sorted_metrics) ELSE SelTop)

\* phase 2: the for loop over sorted_metrics[5:], from candidate number i on
RECURSIVE select_phase_spacing(_, _, _, _, _)
select_phase_spacing(sorted_metrics, i, selected, k, min_spacing) ==
  IF i > Len(sorted_metrics) \/ Len(selected) >= k THEN selected
  ELSE LET sc == sorted_metrics[i]
           min_dist == SetMin({Abs(sc - selected[j]) : j \in 1..Len(selected)})
       IN select_phase_spacing(sorted_metrics, i + 1,
            IF min_dist >= min_spacing THEN Append(selected, sc) ELSE selected,
            k, min_spacing)

\* phase 3: the backfill loop over sorted_metrics, from candidate number i on
RECURSIVE select_phase_backfill(_, _, _, _)
select_phase_backfill(sorted_metrics, i, selected, k) ==
  IF i > Len(sorted_metrics) \/ Len(selected) >= k THEN selected
  ELSE LET sc == sorted_metrics[i]
       IN select_phase_backfill(sorted_metrics, i + 1,
            IF InList(sc, selected) THEN selected ELSE Append(selected, sc), k)

\* variant: no backfill when the spacing phase found fewer than k
select_without_backfill(sorted_metrics, k, min_spacing) ==
  SortAscending(select_phase_spacing(sorted_metrics, SelTop + 1,
                                     select_phase_top(sorted_metrics), k, min_spacing))

\* _select_with_spacing(sorted_metrics, k) of a calibrator with min_spacing
select_with_spacing(sorted_metrics, k, min_spacing) ==
  LET spaced == select_phase_spacing(sorted_metrics, SelTop + 1,
                                     select_phase_top(sorted_metrics), k, min_spacing)
      filled == IF Len(spaced) < k
                  THEN select_phase_backfill(sorted_metrics, 1, spaced, k)
                  ELSE spaced
  IN SortAscending(filled)

\* candidate lists that reach the selection: at least k subcarriers, each
\* once, in ascending order of NBVI
RECURSIVE DistinctLists(_)
DistinctLists(n) ==
  IF n = 0 THEN {<<>>}
  ELSE UNION {{Append(q, sc) :
                  sc \in (0..(SelSubcarriers - 1)) \ {q[i] : i \in 1..Len(q)}} :
                q \in DistinctLists(n - 1)}

SelInputs ==
  UNION {{q \in DistinctLists(n) : \A i, j \in 1..n : i # j => q[i] # q[j]} :
           n \in SelK..SelSubcarriers}

\* history bookkeeping of an operation on a calibrator or filter used alone
UnitHistory(op) ==
  /\ last_op' = op
  /\ UNCHANGED <<seg, config_sel, nvs_file, tg, responses, evals, fed, pristine,
                 fresh, fresh_valid, recent, last_call, last_payload, escaped, reply>>
  /\ UNCHANGED nodeVars

\* everything but the object used alone, at the start
UnitRest ==
  /\ seg = SegInit(SEG_WINDOW_SIZE, SEG_THRESHOLD, FALSE, FALSE, HampelWin, FxOne)
  /\ static_sel = DEFAULT_SUBCARRIERS
  /\ config_sel = static_sel
  /\ nvs_file = NoFile
  /\ tg = TgInit
  /\ NodeIdle
  /\ HistoryInit

InitSelect ==
  /\ \E q \in SelInputs, sp \in 0..SelMaxSpacing :
       nbvi = [kind |-> "select", sorted_metrics |-> q, min_spacing |-> sp,
               returned |-> FALSE, selected |-> <<>>]
  /\ flt = NoUnit
  /\ UnitRest

\* candidate_band = self._select_with_spacing(sorted_metrics, k=12)
SelectWithSpacing ==
  /\ ~nbvi.returned
  /\ nbvi' = [nbvi EXCEPT !.returned = TRUE,
                          !.selected = select_with_spacing(nbvi.sorted_metrics, SelK,
                                                           nbvi.min_spacing)]
  /\ last_ok' = TRUE
  /\ UNCHANGED flt
  /\ UnitHistory("_select_with_spacing")

NextSelect == SelectWithSpacing

SpecSelect == InitSelect /\ [][NextSelect]_vars

\* C22: the selection is exactly k distinct indices in ascending order, and
\* the top candidates by NBVI are among them whatever min_spacing is.
C22_SelectionExactlyK ==
  nbvi.returned =>
    /\ Len(nbvi.selected) = SelK
    /\ \A i \in 1..(Len(nbvi.selected) - 1) : nbvi.selected[i] < nbvi.selected[i + 1]
    /\ \A i \in 1..SelTop : InList(nbvi.sorted_metrics[i], nbvi.selected)

\* the spacing phase found too few and the backfill added a subcarrier that
\* is adjacent to a selected one
C22_Witness ==
  /\ nbvi.returned
  /\ nbvi.min_spacing = SelMaxSpacing
  /\ Len(nbvi.sorted_metrics) > SelK
  /\ Len(select_phase_spacing(nbvi.sorted_metrics, SelTop + 1,
                              select_phase_top(nbvi.sorted_metrics), SelK,
                              nbvi.min_spacing)) < SelK

\* ------------------------------------------------------------------------
\* Specification SpecCalib: NBVICalibrator.calibrate
\* ------------------------------------------------------------------------
\* the most candidate windows _find_candidate_windows returns
MaxCandidates == 2

\* NORMALIZATION_BASELINE_TARGET = 0.25
NORMALIZATION_BASELINE_TARGET == 25
\* baseline variances below 0.01 are replaced by 1.0
BaselineFloor == 1
\* the least scale calibrate returns, 0.1
CalScaleMin == 10

\* baseline variances: 0.0, 0.25, 0.26, 0.5, 3.0
VarValues == {0, 25, 26, 50, 300}
\* false-positive rates of a validated band: 0.0, 0.5, 1.0
FpRates == {0, 50, FxOne}

\* what one candidate window leads to in the loop of calibrate:
\*   "short"  _read_window returned fewer than window_size packets
\*   "gated"  fewer than 12 subcarriers passed the noise gate
\*   "band"   a band of 12 was selected and validated with false-positive
\*            rate fp; var_band is its baseline variance in this window
\* var_cur is the baseline variance of the window for current_band
CandidateWindows ==
  {[kind |-> k, fp |-> 0, var_band |-> 0, var_cur |-> v] :
      k \in {"short", "gated"}, v \in VarValues}
    \cup {[kind |-> "band", fp |-> r, var_band |-> vb, var_cur |-> 0] :
            r \in FpRates, vb \in VarValues}

RECURSIVE CandidateLists(_)
CandidateLists(n) ==
  IF n = 0 THEN {<<>>}
  ELSE LET shorter == CandidateLists(n - 1)
       IN shorter \cup {Append(q, w) : q \in {r \in shorter : Len(r) = n - 1},
                                       w \in CandidateWindows}

\* the normalization scale calibrate derives from a baseline variance
normalization_scale_for(variance) ==
  LET baseline_variance == IF variance < BaselineFloor THEN FxOne ELSE variance
  IN IF baseline_variance > NORMALIZATION_BASELINE_TARGET
       THEN LET sc == FDiv(NORMALIZATION_BASELINE_TARGET, baseline_variance)
            IN IF sc < CalScaleMin THEN CalScaleMin ELSE sc
       ELSE FxOne

\* the loop over the candidates: the number of the window whose band has the
\* least false-positive rate below 1.0 (0 = best_band is None)
RECURSIVE best_window(_, _, _, _)
best_window(candidates, i, best_fp_rate, best) ==
  IF i > Len(candidates) THEN best
  ELSE IF candidates[i].kind = "band" /\ candidates[i].fp < best_fp_rate
    THEN best_window(candidates, i + 1, candidates[i].fp, i)
    ELSE best_window(candidates, i + 1, best_fp_rate, best)

\* variant: without the fallback, best_band None is returned as a failure
calibrate_without_fallback(current_band, candidates) ==
  LET best == best_window(candidates, 1, FxOne, 0)
  IN IF Len(candidates) = 0 \/ best = 0
       THEN [band |-> NoneBand, scale |-> FxOne, variance |-> 0, outcome |-> "failed"]
       ELSE [band |-> AltBand,
             scale |-> normalization_scale_for(candidates[best].var_band),
             variance |-> candidates[best].var_band, outcome |-> "success"]

\* calibrate(current_band): the returned band and scale; variance is what
\* _calculate_baseline_variance returned for that band
calibrate(current_band, candidates) ==
  LET best == best_window(candidates, 1, FxOne, 0)
  IN IF Len(candidates) = 0
       THEN [band |-> NoneBand, scale |-> FxOne, variance |-> 0, outcome |-> "failed"]
     ELSE IF best = 0
       THEN [band |-> current_band,
             scale |-> normalization_scale_for(candidates[1].var_cur),
             variance |-> candidates[1].var_cur, outcome |-> "fallback"]
     ELSE [band |-> AltBand,
           scale |-> normalization_scale_for(candidates[best].var_band),
           variance |-> candidates[best].var_band, outcome |-> "success"]

InitCalib ==
  /\ \E b \in {DEFAULT_SUBCARRIERS, AltBand}, c \in CandidateLists(MaxCandidates) :
       nbvi = [kind |-> "calibrate", current_band |-> b, candidates |-> c,
               returned |-> FALSE,
               result |-> [band |-> NoneBand, scale |-> 0, variance |-> 0,
                           outcome |-> "none"]]
  /\ flt = NoUnit
  /\ UnitRest

\* selected_band, normalization_scale = nbvi_calibrator.calibrate(current_band)
CalibrateCall ==
  /\ ~nbvi.returned
  /\ nbvi' = [nbvi EXCEPT !.returned = TRUE,
                          !.result = calibrate(nbvi.current_band, nbvi.candidates)]
  /\ last_ok' = (nbvi'.result.band # NoneBand)
  /\ UNCHANGED flt
  /\ UnitHistory("calibrate")

NextCalib == CalibrateCall

SpecCalib == InitCalib /\ [][NextCalib]_vars

\* no candidate window yields a band that validation accepts
NoUsableBand(candidates) ==
  \A i \in 1..Len(candidates) :
    candidates[i].kind # "band" \/ candidates[i].fp >= FxOne

\* C23 as stated: whenever no candidate window yields a usable band, calibrate
\* returns the caller's band unchanged and a positive scale.
C23_FallbackWheneverNoBand ==
  (nbvi.returned /\ NoUsableBand(nbvi.candidates))
    => /\ nbvi.result.band = nbvi.current_band
       /\ nbvi.result.scale > 0

\* C23 amended: when there is at least one candidate window and none of them
\* yields a usable band, calibrate returns the caller's band unchanged and a
\* positive scale.
C23_FallbackWhenCandidatesFail ==
  (nbvi.returned /\ Len(nbvi.candidates) > 0 /\ NoUsableBand(nbvi.candidates))
    => /\ nbvi.result.band = nbvi.current_band
       /\ nbvi.result.scale > 0

\* two candidate windows, one short and one whose band fails validation, and
\* the caller's band came back with an attenuating scale
C23_Witness ==
  /\ nbvi.returned
  /\ Len(nbvi.candidates) = 2
  /\ nbvi.candidates[1].kind = "short"
  /\ nbvi.candidates[2].kind = "band"
  /\ nbvi.current_band = AltBand
  /\ nbvi.result.band = AltBand
  /\ nbvi.result.outcome = "fallback"
  /\ nbvi.result.scale = 50

\* C24: the scale calibrate returns with a band is 1.0 when the band's
\* baseline variance is at most 0.25, else 0.25 / variance raised to at
\* least 0.1; so it lies within [0.1, 1.0].
C24_ScaleFromBaselineVariance ==
  (nbvi.returned /\ nbvi.result.band # NoneBand)
    => LET v == nbvi.result.variance
           sc == FDiv(NORMALIZATION_BASELINE_TARGET, v)
       IN /\ (v <= NORMALIZATION_BASELINE_TARGET => nbvi.result.scale = FxOne)
          /\ (v > NORMALIZATION_BASELINE_TARGET
                => nbvi.result.scale = IF sc < CalScaleMin THEN CalScaleMin ELSE sc)
          /\ nbvi.result.scale >= CalScaleMin
          /\ nbvi.result.scale <= FxOne

\* ------------------------------------------------------------------------
\* Specification SpecBuf: NBVICalibrator.add_packet
\* ------------------------------------------------------------------------
\* the largest buffer_size a calibrator is constructed with
MaxBufferSize == 3

\* int(math.sqrt(n))
ISqrt(n) == CHOOSE r \in 0..n : r * r <= n /\ (r + 1) * (r + 1) > n

\* CSI data of one subcarrier: I and Q as signed or unsigned bytes, or a
\* frame too short to hold them
CsiSamples == {<<3, 4>>, <<200, 0>>, <<127, 127>>, <<>>}

\* the magnitude add_packet stores for a subcarrier
packet_magnitude(csi_data) ==
  IF Len(csi_data) < 2 THEN 0
  ELSE LET I == IF csi_data[1] > 127 THEN csi_data[1] - 256 ELSE csi_data[1]
           Q == IF csi_data[2] > 127 THEN csi_data[2] - 256 ELSE csi_data[2]
           mag == ISqrt(I * I + Q * Q)
       IN IF mag < 255 THEN mag ELSE 255

\* variant: the packet is written whether or not the buffer is full
add_packet_unguarded(c, csi_data) ==
  [c EXCEPT !.file = Append(c.file, packet_magnitude(csi_data)),
            !.packet_count = c.packet_count + 1,
            !.returned = c.packet_count + 1]

\* add_packet(csi_data): the calibrator afterwards; returned is its result
add_packet(c, csi_data) ==
  IF c.packet_count >= c.buffer_size
    THEN [c EXCEPT !.returned = c.buffer_size]
    ELSE [c EXCEPT !.file = Append(c.file, packet_magnitude(csi_data)),
                   !.packet_count = c.packet_count + 1,
                   !.returned = c.packet_count + 1]

\* NBVICalibrator(buffer_size=n): an empty buffer file open for writing
InitBuf ==
  /\ \E n \in 1..MaxBufferSize :
       nbvi = [kind |-> "collect", buffer_size |-> n, packet_count |-> 0,
               file |-> <<>>, returned |-> 0, calls |-> 0]
  /\ flt = NoUnit
  /\ UnitRest

\* progress = nbvi_calibrator.add_packet(csi_data); calls is history, the
\* number of calls so far
AddPacket ==
  \E csi_data \in CsiSamples :
    /\ nbvi.calls < nbvi.buffer_size + 2
    /\ nbvi' = [add_packet(nbvi, csi_data) EXCEPT !.calls = nbvi.calls + 1]
    /\ last_ok' = TRUE
    /\ UNCHANGED flt
    /\ UnitHistory("add_packet")

NextBuf == AddPacket

SpecBuf == InitBuf /\ [][NextBuf]_vars

\* C25: the buffer never holds more than buffer_size packets; while it is not
\* full add_packet stores one packet and returns the number stored so far,
\* and once it is full add_packet writes nothing and returns buffer_size.
C25_BufferStopsWhenFull ==
  [][last_op' = "add_packet"
       => /\ Len(nbvi'.file) <= nbvi'.buffer_size
          /\ nbvi'.packet_count = Len(nbvi'.file)
          /\ IF Len(nbvi.file) < nbvi.buffer_size
               THEN /\ Len(nbvi'.file) = Len(nbvi.file) + 1
                    /\ SubSeq(nbvi'.file, 1, Len(nbvi.file)) = nbvi.file
                    /\ nbvi'.returned = Len(nbvi'.file)
               ELSE /\ nbvi'.file = nbvi.file
                    /\ nbvi'.returned = nbvi.buffer_size]_vars

\* two calls were made on a full buffer of the largest size
C25_Witness ==
  /\ nbvi.kind = "collect"
  /\ nbvi.buffer_size = MaxBufferSize
  /\ Len(nbvi.file) = MaxBufferSize
  /\ nbvi.calls = MaxBufferSize + 2
  /\ nbvi.returned = MaxBufferSize
  /\ nbvi.file[1] = 56

\* ------------------------------------------------------------------------
\* Specification SpecHampel: a HampelFilter used on its own
\* ------------------------------------------------------------------------
\* filter and reset calls in one behaviour of SpecHampel
HampelCalls == 5

\* inputs: 0.0, 1.0, 2.0, 2.5, 50.0
HampelInputs == {0, 100, 200, 250, 5000}

\* the middle element of the values in ascending order (of an even number of
\* values, the upper one of the two in the middle)
UpperMedian(values) == SortAscending(values)[(Len(values) \div 2) + 1]

\* the newest n entries of a sequence
Newest(q, n) == IF Len(q) <= n THEN q ELSE SubSeq(q, Len(q) - n + 1, Len(q))

\* HampelFilter(window_size, threshold); inputs is history: the raw inputs
\* since construction or the last reset
InitHampel ==
  /\ \E w \in {HampelWin, HampelWin + 1} :
       flt = [kind |-> "hampel", f |-> HampelInit(TRUE, w, HAMPEL_THRESHOLD),
              out |-> 0, inputs |-> <<>>, calls |-> 0]
  /\ nbvi = NoUnit
  /\ UnitRest

\* self.hampel_filter.filter(value)
HampelFilterCall ==
  \E value \in HampelInputs :
    LET r == HampelFilterStep(flt.f, value)
    IN /\ flt.calls < HampelCalls
       /\ flt' = [flt EXCEPT !.f = r.f, !.out = r.out,
                             !.inputs = Append(flt.inputs, value),
                             !.calls = flt.calls + 1]
       /\ last_ok' = TRUE
       /\ UNCHANGED nbvi
       /\ UnitHistory("hampel_filter")

\* self.hampel_filter.reset()
HampelResetCall ==
  /\ flt.calls < HampelCalls
  /\ Len(flt.inputs) > 0
  /\ flt' = [flt EXCEPT !.f = HampelReset(flt.f), !.inputs = <<>>,
                        !.calls = flt.calls + 1]
  /\ last_ok' = TRUE
  /\ UNCHANGED nbvi
  /\ UnitHistory("hampel_reset")

NextHampel ==
  \/ HampelFilterCall
  \/ HampelResetCall

SpecHampel == InitHampel /\ [][NextHampel]_vars

\* C26: the first two inputs since construction or reset are returned
\* unchanged; from the third on the output is the median of the current
\* window when MAD > 1e-6 and |value - median| / MAD > threshold * 1.4826,
\* and the input otherwise, the window being the newest window_size inputs.
C26_HampelOutput ==
  [][last_op' = "hampel_filter"
       => LET k == Len(flt'.inputs)
              value == flt'.inputs[k]
              window == Newest(flt'.inputs, flt.f.window_size)
              median == UpperMedian(window)
              mad == UpperMedian([i \in 1..Len(window) |-> Abs(window[i] - median)])
          IN IF k < 3 THEN flt'.out = value
             ELSE IF /\ mad > MadEps
                     /\ FDiv(Abs(value - median), mad) > FMul(HAMPEL_THRESHOLD, MadFactor)
               THEN flt'.out = median
               ELSE flt'.out = value]_vars

\* after a reset and more inputs than the window holds, an outlier was
\* replaced by the median
C26_Witness ==
  /\ flt.kind = "hampel"
  /\ last_op = "hampel_filter"
  /\ flt.calls > Len(flt.inputs)
  /\ Len(flt.inputs) >= 3
  /\ flt.out # flt.inputs[Len(flt.inputs)]
  /\ flt.out = 200

\* ------------------------------------------------------------------------
\* Specification SpecLowPass: a LowPassFilter used on its own
\* ------------------------------------------------------------------------
\* filter, reset and set_enabled calls in one behaviour of SpecLowPass
LowPassCalls == 5

\* inputs: 0.0, 1.0, 3.14, 50.0
LowPassInputs == {0, 100, 314, 5000}

\* LowPassFilter(enabled=...); history: value and out are the argument and the
\* result of the last filter call, pending says that the filter was disabled
\* and has not filtered a value while enabled since, carried is x_prev as it
\* was when the filter was last disabled (-1 when it held no value), first
\* says that the last filter call was the first one of an enabled filter since
\* it was disabled
InitLowPass ==
  /\ \E enabled \in BOOLEAN :
       flt = [kind |-> "lowpass", f |-> LowPassInit(enabled), value |-> 0, out |-> 0,
              calls |-> 0, pending |-> FALSE, carried |-> -1, first |-> FALSE]
  /\ nbvi = NoUnit
  /\ UnitRest

\* lowpass_filter.filter(value)
LowPassFilterCall ==
  \E value \in LowPassInputs :
    LET r == LowPassFilterStep(flt.f, value)
    IN /\ flt.calls < LowPassCalls
       /\ flt' = [flt EXCEPT !.f = r.f, !.value = value, !.out = r.out,
                             !.calls = flt.calls + 1,
                             !.pending = flt.pending /\ ~flt.f.enabled,
                             !.first = flt.pending /\ flt.f.enabled]
       /\ last_ok' = TRUE
       /\ UNCHANGED nbvi
       /\ UnitHistory("lowpass_filter")

\* lowpass_filter.set_enabled(enabled)
LowPassSetEnabledCall ==
  \E enabled \in BOOLEAN :
    /\ flt.calls < LowPassCalls
    /\ flt' = [flt EXCEPT !.f = LowPassSetEnabled(flt.f, enabled),
                          !.calls = flt.calls + 1,
                          !.pending = flt.pending \/ ~enabled,
                          !.carried = IF enabled THEN flt.carried
                                      ELSE IF flt.f.initialized THEN flt.f.x_prev
                                      ELSE -1,
                          !.first = FALSE]
    /\ last_ok' = TRUE
    /\ UNCHANGED nbvi
    /\ UnitHistory(IF enabled THEN "lowpass_enable" ELSE "lowpass_disable")

\* lowpass_filter.reset()
LowPassResetCall ==
  /\ flt.calls < LowPassCalls
  /\ flt.f.initialized
  /\ flt' = [flt EXCEPT !.f = LowPassReset(flt.f), !.calls = flt.calls + 1,
                        !.first = FALSE]
  /\ last_ok' = TRUE
  /\ UNCHANGED nbvi
  /\ UnitHistory("lowpass_reset")

NextLowPass ==
  \/ LowPassFilterCall
  \/ LowPassSetEnabledCall
  \/ LowPassResetCall

SpecLowPass == InitLowPass /\ [][NextLowPass]_vars

\* C27: a disabled LowPassFilter returns every input unchanged; disabling it
\* clears x_prev, y_prev and initialized; and the first value filtered after
\* it is enabled again is returned unchanged and becomes x_prev and y_prev, as
\* on a first call.
C27_DisableClearsState ==
  [][/\ (last_op' = "lowpass_filter" /\ ~flt.f.enabled) => flt'.out = flt'.value
     /\ last_op' = "lowpass_disable"
          => flt'.f.x_prev = 0 /\ flt'.f.y_prev = 0 /\ ~flt'.f.initialized
     /\ (last_op' = "lowpass_filter" /\ flt.f.enabled /\ flt.pending)
          => /\ flt'.out = flt'.value
             /\ flt'.f.x_prev = flt'.value
             /\ flt'.f.y_prev = flt'.value
             /\ flt'.f.initialized]_vars

\* a filter that held a value was disabled and enabled again, and the next
\* value, a different one, came back unchanged
C27_Witness ==
  /\ flt.kind = "lowpass"
  /\ last_op = "lowpass_filter"
  /\ flt.first
  /\ flt.carried > 0
  /\ flt.value > 0
  /\ flt.carried # flt.value
  /\ flt.out = flt.value

\* ------------------------------------------------------------------------
\* Specification SpecTg: a TrafficGenerator used on its own
\* ------------------------------------------------------------------------
\* start and stop calls in one behaviour of SpecTg
TgCalls == 4

\* rate_pps arguments of start
TgRates == {TRAFFIC_RATE_MIN - 1, TRAFFIC_RATE_MIN, 100, TRAFFIC_RATE_MAX, TRAFFIC_RATE_MAX + 1}

\* history: the calls made and the tasks spawned so far
TgCallsMade == IF last_op = "init" THEN 0 ELSE last_call.calls
TgTasks == IF last_op = "init" THEN 0 ELSE last_call.tasks

\* history bookkeeping of a call of the generator
TgHistory(op, call) ==
  /\ last_op' = op
  /\ last_call' = call
  /\ UNCHANGED <<seg, config_sel, nvs_file, responses, evals, fed, pristine, fresh,
                 fresh_valid, recent, last_payload, escaped, reply, nbvi, flt>>
  /\ UNCHANGED nodeVars

\* TrafficGenerator()
InitTg ==
  /\ UnitsIdle
  /\ UnitRest

\* traffic_gen.start(rate_pps)
TgStartCall ==
  \E rate_pps \in TgRates, gw_ok \in BOOLEAN, thread_ok \in BOOLEAN :
    LET r == TgStart(tg, rate_pps, gw_ok, thread_ok)
        spawned == TgSpawns(tg, rate_pps, gw_ok, thread_ok)
    IN /\ TgCallsMade < TgCalls
       /\ tg' = r.t
       /\ last_ok' = r.ok
       /\ TgHistory("tg_start",
                    [rate_pps |-> rate_pps, gw_ok |-> gw_ok, thread_ok |-> thread_ok,
                     was_running |-> tg.running, spawned |-> spawned,
                     calls |-> TgCallsMade + 1,
                     tasks |-> TgTasks + (IF spawned THEN 1 ELSE 0)])

\* traffic_gen.stop()
TgStopCall ==
  /\ TgCallsMade < TgCalls
  /\ tg' = TgStop(tg)
  /\ last_ok' = TRUE
  /\ TgHistory("tg_stop",
               [rate_pps |-> 0, gw_ok |-> TRUE, thread_ok |-> TRUE,
                was_running |-> tg.running, spawned |-> FALSE,
                calls |-> TgCallsMade + 1, tasks |-> TgTasks])

NextTg ==
  \/ TgStartCall
  \/ TgStopCall

SpecTg == InitTg /\ [][NextTg]_vars

\* C28: start returns True only when it has spawned a new background task;
\* when it returns False no task was spawned and the running flag has the
\* value it had before the call.
C28_StartTrueOnlyWhenSpawned ==
  [][last_op' = "tg_start"
       => /\ last_ok' => (last_call'.spawned /\ tg'.running)
          /\ ~last_ok' => (~last_call'.spawned /\ tg'.running = tg.running)]_vars

\* after a task had been spawned and stopped, a start whose thread creation
\* failed returned False and left the generator not running
C28_Witness ==
  /\ last_op = "tg_start"
  /\ ~last_ok
  /\ last_call.tasks >= 1
  /\ ~last_call.was_running
  /\ last_call.gw_ok
  /\ ~last_call.thread_ok
  /\ last_call.rate_pps = 100
  /\ ~tg.running

\* ------------------------------------------------------------------------
\* Further properties of SpecCfg
\* ------------------------------------------------------------------------
\* C29: in every reachable state, if the ring buffer holds fewer than
\* window_size values, the segmentation state is IDLE and the stored moving
\* variance is 0.
C29_PartialBufferIsIdle ==
  seg.buffer_count < seg.window_size
    => seg.state = STATE_IDLE /\ seg.current_moving_variance = 0

\* ------------------------------------------------------------------------
\* Properties of SpecNode: the calibration flag
\* ------------------------------------------------------------------------
\* C30: whenever run_nbvi_calibration returns (success, failure, exception or
\* collection timeout) g_state.calibration_mode is False, so that the main
\* loop is not left suspended.
C30_FlagClearedOnReturn ==
  [][CalReturns => ~g_state'.calibration_mode]_vars

\* ------------------------------------------------------------------------
\* Specification SpecNodeLive: SpecNode with the node's single thread always
\* taking its next step. Whether wlan.csi_read() returns a frame is the
\* environment's choice and is not assumed: a read of the gain-lock loop that
\* returns no frame changes nothing, and no fairness is put on the arrival of
\* a frame there.
\* ------------------------------------------------------------------------
SpecNodeLive ==
  /\ InitNode
  /\ [][NextNode]_vars
  /\ WF_vars(Boot)
  /\ WF_vars(CollectRead)
  /\ WF_vars(Calibrate)

\* C31: every calibration run terminates under every frame-arrival pattern:
\* a thread inside run_nbvi_calibration (gain lock, collection, analysis)
\* eventually leaves it.
C31_CalibrationTerminates ==
  (pc \in CalPcs) ~> (pc \notin CalPcs)

\* ------------------------------------------------------------------------
\* Further properties of SpecCalib
\* ------------------------------------------------------------------------
\* C32: if at least one candidate window survives the noise gate (yields a
\* band), calibrate returns the band of one of the surviving windows, and
\* that window's validated false-positive rate is the minimum over all
\* surviving windows, whatever the rates are.
C32_BestSurvivingWindowWins ==
  LET surviving == {i \in 1..Len(nbvi.candidates) : nbvi.candidates[i].kind = "band"}
  IN (nbvi.returned /\ surviving # {})
       => /\ nbvi.result.outcome = "success"
          /\ \E i \in surviving :
               /\ \A j \in surviving : nbvi.candidates[i].fp <= nbvi.candidates[j].fp
               /\ nbvi.result.variance = nbvi.candidates[i].var_band

\* ------------------------------------------------------------------------
\* Specification SpecGate: the body of calibrate's loop for one candidate
\* window, from the NBVI of every subcarrier to the candidate band
\* ------------------------------------------------------------------------
\* NUM_SUBCARRIERS, GUARD_BAND_LOW, GUARD_BAND_HIGH and DC_SUBCARRIER
\* (64, 11, 52 and 32 in the program), scaled to a band of SelK
GateSubcarriers == 7
GateGuardLow == 1
GateGuardHigh == 5
GateDc == 3
NULL_SUBCARRIER_THRESHOLD == FxOne
NOISE_GATE_PERCENTILE == 25
\* float('inf')
NbviInf == 1000000

\* what _calculate_nbvi_weighted returns for a subcarrier: mean 0.5, 2.0 or
\* 3.0 and an NBVI of 0.1 or 0.2
GateProfiles ==
  {[mean |-> 50, nbvi |-> 10], [mean |-> 200, nbvi |-> 10],
   [mean |-> 200, nbvi |-> 20], [mean |-> 300, nbvi |-> 20]}

\* all_metrics: the NBVI of subcarrier sc (numbered from 0) after the guard-band,
\* DC and weak-subcarrier exclusions
gated_nbvi(metrics, sc) ==
  IF sc < GateGuardLow \/ sc > GateGuardHigh \/ sc = GateDc THEN NbviInf
  ELSE IF metrics[sc + 1].mean < NULL_SUBCARRIER_THRESHOLD THEN NbviInf
  ELSE metrics[sc + 1].nbvi

\* _percentile(values, p), values given in ascending order
percentile(sorted_values, p) ==
  LET n == Len(sorted_values)
      k == (n - 1) * p
      f == k \div FxOne
      c == f + 1
  IN IF n = 0 THEN 0
     ELSE IF c >= n THEN sorted_values[n]
     ELSE (sorted_values[f + 1] * (c * FxOne - k) + sorted_values[c + 1] * (k - f * FxOne))
            \div FxOne

\* the members of a set of integers as a list
RECURSIVE SetToSeq(_)
SetToSeq(S) == IF S = {} THEN <<>> ELSE <<SetMin(S)>> \o SetToSeq(S \ {SetMin(S)})

\* _apply_noise_gate(all_metrics): the subcarriers it keeps
apply_noise_gate(metrics) ==
  LET valid == {sc \in 0..(Len(metrics) - 1) : metrics[sc + 1].mean > FxOne}
      valid_means == SortAscending([i \in 1..Cardinality(valid) |->
                                      metrics[SetToSeq(valid)[i] + 1].mean])
      threshold == percentile(valid_means, NOISE_GATE_PERCENTILE)
  IN IF valid = {} THEN {}
     ELSE {sc \in 0..(Len(metrics) - 1) : metrics[sc + 1].mean >= threshold}

\* sorted(filtered_metrics, key=nbvi): a stable sort, so that equal NBVI keep
\* the order of the subcarrier numbers
RECURSIVE sorted_by_nbvi(_, _)
sorted_by_nbvi(metrics, filtered) ==
  IF filtered = {} THEN <<>>
  ELSE LET least == SetMin({gated_nbvi(metrics, sc) : sc \in filtered})
           first == SetMin({sc \in filtered : gated_nbvi(metrics, sc) = least})
       IN <<first>> \o sorted_by_nbvi(metrics, filtered \ {first})

\* the candidate band of a window, NoneBand when the loop continues without one
window_band(metrics, min_spacing) ==
  LET filtered == apply_noise_gate(metrics)
      band == select_with_spacing(sorted_by_nbvi(metrics, filtered), SelK, min_spacing)
  IN IF Cardinality(filtered) < SelK \/ Len(band) # SelK THEN NoneBand ELSE band

RECURSIVE MetricLists(_)
MetricLists(n) ==
  IF n = 0 THEN {<<>>}
  ELSE {Append(q, m) : q \in MetricLists(n - 1), m \in GateProfiles}

InitGate ==
  /\ \E metrics \in MetricLists(GateSubcarriers), sp \in 1..2 :
       nbvi = [kind |-> "window", metrics |-> metrics, min_spacing |-> sp,
               returned |-> FALSE, band |-> NoneBand]
  /\ flt = NoUnit
  /\ UnitRest

\* one iteration of the loop over the candidate windows
WindowBand ==
  /\ nbvi.kind = "window"
  /\ ~nbvi.returned
  /\ nbvi' = [nbvi EXCEPT !.returned = TRUE,
                          !.band = window_band(nbvi.metrics, nbvi.min_spacing)]
  /\ last_ok' = (nbvi'.band # NoneBand)
  /\ UNCHANGED flt
  /\ UnitHistory("window_band")

NextGate == WindowBand

SpecGate == InitGate /\ [][NextGate]_vars

\* C33: a newly selected band never contains a guard-band subcarrier, the DC
\* subcarrier, or a subcarrier whose mean magnitude in the window is below
\* the floor of 1.0.
C33_BandExcludesUnusable ==
  (nbvi.returned /\ nbvi.band # NoneBand)
    => \A i \in 1..Len(nbvi.band) :
         LET sc == nbvi.band[i]
         IN /\ sc >= GateGuardLow
            /\ sc <= GateGuardHigh
            /\ sc # GateDc
            /\ nbvi.metrics[sc + 1].mean >= NULL_SUBCARRIER_THRESHOLD

\* ------------------------------------------------------------------------
\* Specification SpecVal: _validate_subcarriers on a calibration buffer, and
\* the production segmentation replaying the same buffer
\* ------------------------------------------------------------------------
\* the largest number of packets in the calibration buffer
ValPackets == 5

\* spatial turbulence of a packet for the candidate band: 0.0, 2.13, 3.14; a
\* window of two 0.0 and one 2.13 has the variance 1.0 of the threshold
ValTurbValues == {0, 213, 314}

RECURSIVE PacketLists(_)
PacketLists(n) ==
  IF n = 0 THEN {<<>>}
  ELSE {Append(q, t) : q \in PacketLists(n - 1), t \in ValTurbValues}

\* the loop of _validate_subcarriers from packet pkt_idx on: the packet
\* numbers (from 0) it counts as motion
RECURSIVE validate_loop(_, _, _, _, _, _)
validate_loop(packets, pkt_idx, turbulence_buffer, motion, mvs_window_size, mvs_threshold) ==
  IF pkt_idx >= Len(packets) THEN motion
  ELSE LET buf == Append(Tail(turbulence_buffer), packets[pkt_idx + 1])
           mv_variance == compute_variance_two_pass(buf)
       IN validate_loop(packets, pkt_idx + 1, buf,
            IF pkt_idx >= mvs_window_size /\ mv_variance > mvs_threshold
              THEN motion \cup {pkt_idx} ELSE motion,
            mvs_window_size, mvs_threshold)

\* _validate_subcarriers(band, mvs_window_size, mvs_threshold): the packets
\* counted as motion and the false-positive rate
validate_subcarriers(packets, mvs_window_size, mvs_threshold) ==
  LET motion == validate_loop(packets, 0, Zeros(mvs_window_size), {},
                              mvs_window_size, mvs_threshold)
      total_packets == Len(packets) - mvs_window_size
  IN IF Len(packets) < mvs_window_size THEN [motion |-> {}, fp_rate |-> 0]
     ELSE [motion |-> motion,
           fp_rate |-> IF total_packets > 0
                         THEN FDiv(Cardinality(motion), total_packets) ELSE 0]

\* history bookkeeping of SpecVal
ValHistory(op) ==
  /\ last_op' = op
  /\ UNCHANGED <<config_sel, nvs_file, tg, responses, evals, fed, pristine, fresh,
                 fresh_valid, recent, last_call, last_payload, escaped, reply, flt>>
  /\ UNCHANGED nodeVars

\* packets: the per-packet turbulence of the buffer for the candidate band;
\* history: replayed counts the packets the production context has processed,
\* prod_motion the packet numbers after which it reported MOTION
InitVal ==
  /\ \E n \in SEG_WINDOW_SIZE..ValPackets : \E packets \in PacketLists(n) :
       nbvi = [kind |-> "validate", packets |-> packets, replayed |-> 0,
               prod_motion |-> {}, validated |-> FALSE,
               result |-> [motion |-> {}, fp_rate |-> 0]]
  /\ flt = NoUnit
  /\ seg = SegInit(SEG_WINDOW_SIZE, SEG_THRESHOLD, FALSE, FALSE, HampelWin, FxOne)
  /\ static_sel = DEFAULT_SUBCARRIERS
  /\ config_sel = static_sel
  /\ nvs_file = NoFile
  /\ tg = TgInit
  /\ NodeIdle
  /\ HistoryInit

\* fp_rate = self._validate_subcarriers(candidate_band)
ValidateCall ==
  /\ nbvi.kind = "validate"
  /\ ~nbvi.validated
  /\ nbvi' = [nbvi EXCEPT !.validated = TRUE,
                          !.result = validate_subcarriers(nbvi.packets, SEG_WINDOW_SIZE,
                                                          SEG_THRESHOLD)]
  /\ last_ok' = TRUE
  /\ UNCHANGED seg
  /\ ValHistory("validate")

\* the production segmentation on the next packet of the buffer:
\* add_turbulence followed by update_state
ProductionPacket ==
  /\ nbvi.kind = "validate"
  /\ nbvi.replayed < Len(nbvi.packets)
  /\ seg' = update_state(add_turbulence(seg, nbvi.packets[nbvi.replayed + 1]))
  /\ nbvi' = [nbvi EXCEPT !.replayed = nbvi.replayed + 1,
                          !.prod_motion = IF seg'.state = STATE_MOTION
                                            THEN nbvi.prod_motion \cup {nbvi.replayed}
                                            ELSE nbvi.prod_motion]
  /\ last_ok' = TRUE
  /\ ValHistory("production_packet")

NextVal ==
  \/ ValidateCall
  \/ ProductionPacket

SpecVal == InitVal /\ [][NextVal]_vars

\* C34: the packets that validation counts as motion are exactly the packets
\* on which the production segmentation, fed the same turbulence and
\* evaluated after every packet, reports MOTION.
C34_ValidationMatchesProduction ==
  (nbvi.kind = "validate" /\ nbvi.validated /\ nbvi.replayed = Len(nbvi.packets))
    => nbvi.result.motion = nbvi.prod_motion

\* ------------------------------------------------------------------------
\* Specification SpecChan: the main loop of a calibrated node reading frames,
\* with channel switches
\* ------------------------------------------------------------------------
\* frames the main loop processes in one behaviour of SpecChan
ChanPackets == 8

\* variant: a channel change is recorded but the context is not reset
process_frame_no_reset(s, g, counter, v, ch) ==
  LET s1 == add_turbulence(s, v)
      n == counter + 1
      changed == g.current_channel # 0 /\ ch # g.current_channel
  IN IF n >= publish_rate
       THEN [seg |-> update_state(s1), g_state |-> [g EXCEPT !.current_channel = ch],
             publish_counter |-> 0, changed |-> changed]
       ELSE [seg |-> s1, g_state |-> g, publish_counter |-> n, changed |-> FALSE]

\* main loop, a frame with turbulence v on channel ch: add_turbulence, and at
\* publish time the channel check, reset(full=True) and update_state
process_frame(s, g, counter, v, ch) ==
  LET s1 == add_turbulence(s, v)
      n == counter + 1
      changed == g.current_channel # 0 /\ ch # g.current_channel
      s2 == IF changed THEN reset(s1, TRUE) ELSE s1
  IN IF n >= publish_rate
       THEN [seg |-> update_state(s2), g_state |-> [g EXCEPT !.current_channel = ch],
             publish_counter |-> 0, changed |-> changed]
       ELSE [seg |-> s1, g_state |-> g, publish_counter |-> n, changed |-> FALSE]

\* a node in its main loop with a stored band; the Hampel filter is enabled
InitChan ==
  /\ seg \in {SegInit(SEG_WINDOW_SIZE, SEG_THRESHOLD, lp, TRUE, HampelWin, FxOne) :
                lp \in BOOLEAN}
  /\ static_sel = DEFAULT_SUBCARRIERS
  /\ config_sel = static_sel
  /\ nvs_file = NoFile
  /\ tg = [running |-> TRUE, rate_pps |-> TRAFFIC_GENERATOR_RATE]
  /\ g_state = GStateInit
  /\ cal = CalIdle
  /\ pc = "loop_top"
  /\ publish_counter = 0
  /\ config_norm = FxOne
  /\ HistoryInit
  /\ UnitsIdle

\* one iteration of the main loop with no message pending and a frame read;
\* history: from a detected channel switch on, fresh is a context constructed
\* at the switch that processed the frames read since
ChanIteration ==
  \E v \in {0, 1, 314}, ch \in {1, 6} :
    LET r == process_frame(seg, g_state, publish_counter, v, ch)
    IN /\ pc = "loop_top"
       /\ ~g_state.calibration_mode
       /\ fed < ChanPackets
       /\ fed' = fed + 1
       /\ seg' = r.seg
       /\ g_state' = r.g_state
       /\ publish_counter' = r.publish_counter
       /\ fresh' = IF r.changed THEN update_state(FreshLike(seg))
                   ELSE IF fresh_valid
                     THEN process_frame(fresh, g_state, publish_counter, v, ch).seg
                   ELSE fresh
       /\ fresh_valid' = (fresh_valid \/ r.changed)
       /\ last_op' = IF r.changed THEN "channel_switch" ELSE "process_frame"
       /\ last_ok' = TRUE
       /\ UNCHANGED <<config_sel, config_norm, static_sel, nvs_file, tg, cal, pc,
                      responses, evals, pristine, recent, last_call, last_payload,
                      escaped, reply, nbvi, flt>>

NextChan == ChanIteration

SpecChan == InitChan /\ [][NextChan]_vars

\* C35: when the frame examined at publish time carries a channel different
\* from the recorded one, the publication reports IDLE with variance 0, and
\* from then on variance and state are those of a context constructed at the
\* switch: no value recorded before the switch contributes to them.
C35_ChannelSwitchResets ==
  [][/\ (g_state.current_channel # 0
           /\ g_state'.current_channel # g_state.current_channel)
        => /\ seg'.state = STATE_IDLE
           /\ seg'.current_moving_variance = 0
     /\ fresh_valid'
        => /\ seg'.current_moving_variance = fresh'.current_moving_variance
           /\ seg'.state = fresh'.state
           /\ seg'.last_turbulence = fresh'.last_turbulence]_vars

\* a switch was detected, and a window that filled after the switch was
\* evaluated and reports MOTION
C35_Witness ==
  /\ fresh_valid
  /\ last_op = "process_frame"
  /\ publish_counter = 0
  /\ seg.state = STATE_MOTION
  /\ seg.buffer_count = seg.window_size
  /\ seg.current_moving_variance > seg.threshold

\* ------------------------------------------------------------------------
\* Specification SpecLoop: the main loop of a calibrated node, each iteration
\* check_messages() followed by wlan.csi_read(); pc = "loop_read" between the
\* two
\* ------------------------------------------------------------------------
\* frames the main loop processes in one behaviour of SpecLoop
LoopPackets == 4

\* history bookkeeping of SpecLoop: the payload of the command dispatched and
\* the band the turbulence of the frame was computed with
LoopHistory(op, p, call) ==
  /\ last_op' = op
  /\ last_payload' = p
  /\ last_call' = call
  /\ UNCHANGED <<config_norm, static_sel, cal, evals, pristine, fresh, fresh_valid,
                 recent, escaped, reply, nbvi, flt>>

InitLoop ==
  /\ seg = SegInit(SEG_WINDOW_SIZE, SEG_THRESHOLD, FALSE, FALSE, HampelWin, FxOne)
  /\ static_sel = DEFAULT_SUBCARRIERS
  /\ config_sel = static_sel
  /\ nvs_file = NoFile
  /\ tg = [running |-> TRUE, rate_pps |-> TRAFFIC_GENERATOR_RATE]
  /\ g_state = GStateInit
  /\ cal = CalIdle
  /\ pc = "loop_top"
  /\ publish_counter = 0
  /\ config_norm = FxOne
  /\ HistoryInit
  /\ UnitsIdle

\* check_messages() with no message pending
LoopIdle ==
  /\ pc = "loop_top"
  /\ ~g_state.calibration_mode
  /\ pc' = "loop_read"
  /\ last_ok' = TRUE
  /\ UNCHANGED <<seg, config_sel, nvs_file, tg, g_state, publish_counter, responses, fed>>
  /\ LoopHistory("no_message", NoPayload, NoCall)

\* check_messages() delivers segmentation_threshold, segmentation_window_size
\* or subcarrier_selection: _on_message calls process_command, which runs the
\* handler before check_messages returns
LoopCommand ==
  /\ pc = "loop_top"
  /\ ~g_state.calibration_mode
  /\ pc' = "loop_read"
  /\ UNCHANGED <<g_state, publish_counter, fed>>
  /\ \/ \E p \in Payloads({218}) :
          /\ cmd_segmentation_threshold(p)
          /\ LoopHistory("segmentation_threshold", p, NoCall)
     \/ \E p \in Payloads({WinMin, WinMax + 1}) :
          /\ cmd_segmentation_window_size(p)
          /\ LoopHistory("segmentation_window_size", p, NoCall)
     \/ \E p \in {q \in IndexPayloads : q.indices \in {<<>>, AltBand, <<3, 64>>}} :
          /\ cmd_subcarrier_selection(p)
          /\ LoopHistory("subcarrier_selection", p, NoCall)

\* wlan.csi_read() and the rest of the iteration; band is
\* config.SELECTED_SUBCARRIERS as calculate_spatial_turbulence receives it
LoopFrame ==
  \E frame \in BOOLEAN, v \in {1, 314} :
    /\ pc = "loop_read"
    /\ pc' = "loop_top"
    /\ last_ok' = frame
    /\ UNCHANGED <<config_sel, nvs_file, tg, responses>>
    /\ IF ~frame
         THEN /\ UNCHANGED <<seg, g_state, publish_counter, fed>>
              /\ LoopHistory("no_frame", NoPayload, NoCall)
         ELSE LET r == process_frame(seg, g_state, publish_counter, v, 1)
              IN /\ fed < LoopPackets
                 /\ fed' = fed + 1
                 /\ seg' = r.seg
                 /\ g_state' = r.g_state
                 /\ publish_counter' = r.publish_counter
                 /\ LoopHistory("process_frame", NoPayload,
                                [raw |-> v, hampel_raises |-> FALSE,
                                 lowpass_raises |-> FALSE, band |-> config_sel])

NextLoop ==
  \/ LoopIdle
  \/ LoopCommand
  \/ LoopFrame

SpecLoop == InitLoop /\ [][NextLoop]_vars

\* the state update_state reaches from state st with variance v and threshold th
ExpectedState(st, v, th) ==
  IF st = STATE_IDLE THEN (IF v > th THEN STATE_MOTION ELSE STATE_IDLE)
  ELSE (IF v < th THEN STATE_IDLE ELSE STATE_MOTION)

\* C36: a threshold, window-size or subcarrier command accepted in an
\* iteration is in effect when that iteration processes its frame: the state
\* evaluation compares with the new threshold, the ring buffer has the new
\* size and holds only this frame's value, and the turbulence is computed
\* with the new band.
C36_CommandAppliedInSameIteration ==
  [][(pc = "loop_read" /\ last_ok /\ last_op' = "process_frame")
       => /\ (last_op = "segmentation_threshold" /\ last_payload.kind = "num")
               => /\ seg'.threshold = last_payload.v
                  /\ publish_counter' = 0
                       => seg'.state = ExpectedState(seg.state, seg'.current_moving_variance,
                                                     last_payload.v)
          /\ last_op = "segmentation_window_size"
               => /\ seg'.window_size = last_payload.v
                  /\ Len(seg'.turbulence_buffer) = last_payload.v
                  /\ seg'.buffer_count = 1
                  /\ seg'.turbulence_buffer[1] = seg'.last_turbulence
          /\ last_op = "subcarrier_selection"
               => last_call'.band = last_payload.indices]_vars

\* a threshold of 2.18 arrived in the iteration whose frame filled the window
\* with variance 2.17: the evaluation of that iteration reports IDLE, where
\* the old threshold 1.0 would have given MOTION
C36_Witness ==
  /\ last_op = "process_frame"
  /\ publish_counter = 0
  /\ seg.buffer_count = seg.window_size
  /\ seg.threshold = 218
  /\ seg.current_moving_variance = 217
  /\ seg.state = STATE_IDLE
  /\ nvs_file.exists /\ nvs_file.threshold = 218
  /\ fed = LoopPackets

\* ------------------------------------------------------------------------
\* Specification SpecTask: a TrafficGenerator with its _dns_task threads.
\* flt.tasks are the threads start() created, flt.sock is self.sock (the
\* index of the thread that opened it, 0 for None); pc = "stop_sleep" while
\* the caller is in the time.sleep(0.5) of stop()
\* ------------------------------------------------------------------------
\* start and stop calls in one behaviour of SpecTask
TaskCalls == 4

\* packets one thread sends in one behaviour of SpecTask
TaskSends == 2

\* time.sleep(0.5) of stop(), in milliseconds
StopSleepMs == 500

\* rate_pps arguments of start in SpecTask
TaskRates == {TRAFFIC_RATE_MIN, 1, 100}

TaskDead == "dead"

\* the threads that have not returned
AliveTasks == {i \in 1..Len(flt.tasks) : flt.tasks[i].pc # TaskDead}

\* history bookkeeping of SpecTask
TaskHistory(op) ==
  /\ last_op' = op
  /\ UNCHANGED <<seg, config_sel, nvs_file, responses, evals, fed, pristine, fresh,
                 fresh_valid, recent, last_payload, last_call, escaped, reply, nbvi>>
  /\ UNCHANGED <<g_state, cal, publish_counter, config_norm, static_sel>>

InitTask ==
  /\ nbvi = NoUnit
  /\ flt = [kind |-> "tasks", tasks |-> <<>>, sock |-> 0, calls |-> 0,
            sender |-> 0, sender_sock |-> 0, last_started |-> 0]
  /\ UnitRest

\* traffic_gen.start(rate_pps)
TaskStartCall ==
  \E rate_pps \in TaskRates, gw_ok \in BOOLEAN, thread_ok \in BOOLEAN :
    LET r == TgStart(tg, rate_pps, gw_ok, thread_ok)
        spawned == TgSpawns(tg, rate_pps, gw_ok, thread_ok)
        t == [pc |-> "begin", interval_us |-> 0, sleep_ms |-> 0, sent |-> 0]
    IN /\ pc = "api"
       /\ flt.calls < TaskCalls
       /\ tg' = r.t
       /\ last_ok' = r.ok
       /\ flt' = [flt EXCEPT !.calls = @ + 1,
                             !.tasks = IF spawned THEN Append(@, t) ELSE @,
                             !.last_started = IF spawned THEN Len(flt.tasks) + 1 ELSE @]
       /\ pc' = pc
       /\ TaskHistory("tg_start")

\* stop() up to its time.sleep(0.5)
TaskStopCall ==
  /\ pc = "api"
  /\ flt.calls < TaskCalls
  /\ flt' = [flt EXCEPT !.calls = @ + 1]
  /\ last_ok' = TRUE
  /\ IF ~tg.running
       THEN /\ UNCHANGED <<tg, pc>>
            /\ TaskHistory("tg_stop")
       ELSE /\ tg' = [tg EXCEPT !.running = FALSE]
            /\ pc' = "stop_sleep"
            /\ TaskHistory("tg_stop_sleep")

\* stop() after its time.sleep(0.5): every thread that was runnable or had
\* at most 500 ms left to sleep has run in the meantime
TaskStopReturn ==
  /\ pc = "stop_sleep"
  /\ \A i \in AliveTasks : /\ flt.tasks[i].pc = "sleeping"
                           /\ flt.tasks[i].sleep_ms > StopSleepMs
  /\ tg' = [tg EXCEPT !.rate_pps = 0]
  /\ flt' = [flt EXCEPT !.tasks = [i \in 1..Len(@) |->
                                     IF @[i].pc = "sleeping"
                                       THEN [@[i] EXCEPT !.sleep_ms = @ - StopSleepMs]
                                       ELSE @[i]]]
  /\ pc' = "api"
  /\ last_ok' = TRUE
  /\ TaskHistory("tg_stop")

\* _dns_task up to its loop: the socket is created (sock_ok) and interval_us
\* is 1000000 // self.rate_pps, which raises ZeroDivisionError at rate 0
TaskBegin ==
  \E i \in AliveTasks, sock_ok \in BOOLEAN :
    /\ flt.tasks[i].pc = "begin"
    /\ IF ~sock_ok
         THEN /\ tg' = [tg EXCEPT !.running = FALSE]
              /\ flt' = [flt EXCEPT !.tasks[i].pc = TaskDead]
         ELSE IF tg.rate_pps = 0
           THEN /\ tg' = tg
                /\ flt' = [flt EXCEPT !.tasks[i].pc = TaskDead, !.sock = i]
           ELSE /\ tg' = tg
                /\ flt' = [flt EXCEPT !.tasks[i].pc = "loop",
                                      !.tasks[i].interval_us = 1000000 \div tg.rate_pps,
                                      !.sock = i]
    /\ UNCHANGED <<pc, last_ok>>
    /\ TaskHistory("task_begin")

\* while self.running: ... and the cleanup after the loop
TaskCheck ==
  \E i \in AliveTasks :
    /\ flt.tasks[i].pc = "loop"
    /\ IF tg.running
         THEN /\ flt.tasks[i].sent < TaskSends
              /\ flt' = [flt EXCEPT !.tasks[i].pc = "send"]
         ELSE flt' = [flt EXCEPT !.tasks[i].pc = TaskDead, !.sock = 0]
    /\ UNCHANGED <<tg, pc, last_ok>>
    /\ TaskHistory("task_check")

\* one pass of the loop body: self.sock.sendto, the timing arithmetic and
\* the sleep until the next send time; with self.sock None, or self.rate_pps
\* 0 in accumulator // self.rate_pps, the handler of the loop sleeps
\* interval_us // 1000 ms
TaskSend ==
  \E i \in AliveTasks :
    /\ flt.tasks[i].pc = "send"
    /\ flt' = [flt EXCEPT !.tasks[i].pc = "sleeping",
                          !.tasks[i].sleep_ms = flt.tasks[i].interval_us \div 1000,
                          !.tasks[i].sent = IF flt.sock # 0 THEN @ + 1 ELSE @,
                          !.sender = IF flt.sock # 0 THEN i ELSE @,
                          !.sender_sock = IF flt.sock # 0 THEN flt.sock ELSE @]
    /\ UNCHANGED <<tg, pc, last_ok>>
    /\ TaskHistory(IF flt.sock # 0 THEN "task_send" ELSE "task_send_error")

\* the sleep of a thread ends
TaskWake ==
  \E i \in AliveTasks :
    /\ flt.tasks[i].pc = "sleeping"
    /\ flt' = [flt EXCEPT !.tasks[i].pc = "loop", !.tasks[i].sleep_ms = 0]
    /\ UNCHANGED <<tg, pc, last_ok>>
    /\ TaskHistory("task_wake")

NextTask ==
  \/ TaskStartCall
  \/ TaskStopCall
  \/ TaskStopReturn
  \/ TaskBegin
  \/ TaskCheck
  \/ TaskSend
  \/ TaskWake

SpecTask == InitTask /\ [][NextTask]_vars

\* C37: at most one _dns_task thread is alive at any time, and a packet is
\* sent on the socket that the sending thread opened itself.
C37_AtMostOneTaskAlive ==
  /\ Cardinality(AliveTasks) <= 1
  /\ flt.sender_sock = flt.sender

\* C38: whenever is_running() returns True, the thread that the last
\* successful start() created is alive.
C38_RunningMeansTaskAlive ==
  tg.running => flt.last_started \in AliveTasks

\* ------------------------------------------------------------------------
\* C39 (SpecCfg): after a factory_reset command that ran to its end the
\* context holds nothing from before: threshold and window size are the
\* defaults, the ring buffer is empty, the state is IDLE, the Hampel filter
\* holds no samples, the low-pass filter has no previous input or output,
\* and normalization_scale is 1.0 (no re-calibration function is attached).
C39_FactoryResetCarriesNothing ==
  [][(last_op' = "factory_reset" /\ last_ok')
       => /\ seg'.threshold = SEG_THRESHOLD
          /\ seg'.window_size = SEG_WINDOW_SIZE
          /\ seg'.buffer_count = 0
          /\ seg'.state = STATE_IDLE
          /\ seg'.hampel_filter.count = 0
          /\ ~seg'.lowpass_filter.initialized
          /\ seg'.normalization_scale = FxOne]_vars

\* ------------------------------------------------------------------------
\* The list-based filter of the equivalence tests (OriginalHampelFilter)
\* ------------------------------------------------------------------------
\* OriginalHampelFilter.filter(value) on the list buffer; the deviation is
\* abs(value - median) / (1.4826 * mad), compared with the threshold
OriginalHampelFilter_filter(buffer, value, window_size, threshold) ==
  LET appended == Append(buffer, value)
      buf == IF Len(appended) > window_size THEN Tail(appended) ELSE appended
      n == Len(buf)
  IN IF n < 3 THEN [out |-> value, buffer |-> buf]
     ELSE LET sorted_buffer == SortAscending(buf)
              median == sorted_buffer[(n \div 2) + 1]
              deviations == SortAscending([i \in 1..n |-> Abs(buf[i] - median)])
              mad == deviations[(n \div 2) + 1]
          IN IF mad > MadEps
                /\ FDiv(Abs(value - median), FMul(MadFactor, mad)) > threshold
               THEN [out |-> median, buffer |-> buf]
               ELSE [out |-> value, buffer |-> buf]

\* the buffer of an OriginalHampelFilter that has filtered the values of inputs
RECURSIVE OriginalBuffer(_, _)
OriginalBuffer(inputs, window_size) ==
  IF Len(inputs) = 0 THEN <<>>
  ELSE OriginalHampelFilter_filter(
         OriginalBuffer(SubSeq(inputs, 1, Len(inputs) - 1), window_size),
         inputs[Len(inputs)], window_size, HAMPEL_THRESHOLD).buffer

\* ------------------------------------------------------------------------
\* Specification SpecHampelEq: a HampelFilter and an OriginalHampelFilter fed
\* the same values, as in TestHampelEquivalence
\* ------------------------------------------------------------------------
\* filter calls in one behaviour of SpecHampelEq
HampelEqCalls == 5

\* inputs: 0.0, 1.0, 2.5, 6.93, 50.0; with median 1.0 and MAD 1.0 the value
\* 6.93 lies between threshold * 1.4826 and the next representable quotient
HampelEqInputs == {0, 100, 250, 693, 5000}

\* HampelFilter(HAMPEL_WINDOW, HAMPEL_THRESHOLD)
InitHampelEq ==
  /\ \E w \in {HampelWin, HampelWin + 1} :
       flt = [kind |-> "hampel", f |-> HampelInit(TRUE, w, HAMPEL_THRESHOLD),
              out |-> 0, inputs |-> <<>>, calls |-> 0]
  /\ nbvi = NoUnit
  /\ UnitRest

\* opt_filtered = optimized.filter(value)
HampelEqCall ==
  \E value \in HampelEqInputs :
    LET r == HampelFilterStep(flt.f, value)
    IN /\ flt.calls < HampelEqCalls
       /\ flt' = [flt EXCEPT !.f = r.f, !.out = r.out,
                             !.inputs = Append(flt.inputs, value),
                             !.calls = flt.calls + 1]
       /\ last_ok' = TRUE
       /\ UNCHANGED nbvi
       /\ UnitHistory("hampel_filter")

NextHampelEq == HampelEqCall

SpecHampelEq == InitHampelEq /\ [][NextHampelEq]_vars

\* C40 (SpecHampelEq): at every filter call the circular-buffer HampelFilter
\* returns what the list-based OriginalHampelFilter returns for the same
\* inputs, window size and threshold.
C40_MatchesListBasedFilter ==
  [][last_op' = "hampel_filter"
       => flt'.out = OriginalHampelFilter_filter(
                       OriginalBuffer(flt.inputs, flt.f.window_size),
                       flt'.inputs[Len(flt'.inputs)], flt.f.window_size,
                       HAMPEL_THRESHOLD).out]_vars

====
